---------------------------- MODULE Spec2Model ----------------------------
(***************************************************************************)
(* A model of the NovelUpdates scraping adapter of the light-novel         *)
(* bookmark backend: the chapter-number parser, the page extractors, the   *)
(* multi-page scrape of NovelUpdatesCloudScraper.scrape_novel_by_url, and  *)
(* the integration layer that persists what a scrape returns.              *)
(*                                                                         *)
(* Texts that the code inspects character by character (chapter titles,    *)
(* hrefs, status texts, URLs) are sequences of one-character strings.      *)
(* Texts the code only copies (novel titles, author names) are strings.    *)
(***************************************************************************)
EXTENDS Integers, Sequences, FiniteSets, TLC

None == "None"

(***************************************************************************)
(* Characters and the pieces of Python's re that the patterns use.          *)
(***************************************************************************)
DigitChars == <<"0", "1", "2", "3", "4", "5", "6", "7", "8", "9">>

UpperChars ==
    <<"A", "B", "C", "D", "E", "F", "G", "H", "I", "J", "K", "L", "M",
      "N", "O", "P", "Q", "R", "S", "T", "U", "V", "W", "X", "Y", "Z">>

LowerChars ==
    <<"a", "b", "c", "d", "e", "f", "g", "h", "i", "j", "k", "l", "m",
      "n", "o", "p", "q", "r", "s", "t", "u", "v", "w", "x", "y", "z">>

\* \d
IsDigit(c) == \E i \in 1..10 : DigitChars[i] = c

DigitVal(c) == (CHOOSE i \in 1..10 : DigitChars[i] = c) - 1

\* \s
IsSpace(c) == c \in {" ", "\t", "\n", "\r"}

\* str.lower() of one character
Lower(c) ==
    IF \E i \in 1..26 : UpperChars[i] = c
    THEN LowerChars[CHOOSE i \in 1..26 : UpperChars[i] = c]
    ELSE c

\* str.lower()
ToLower(s) == [i \in 1..Len(s) |-> Lower(s[i])]

\* the character at position i, "" past either end
At(s, i) == IF i \in 1..Len(s) THEN s[i] ELSE ""

\* the text p stands in s at position i
HasAt(s, i, p) ==
    /\ i >= 1
    /\ i + Len(p) - 1 <= Len(s)
    /\ \A k \in 1..Len(p) : s[i + k - 1] = p[k]

\* p in s
Contains(s, p) == \E i \in 1..(Len(s) + 1) : HasAt(s, i, p)

\* s.startswith(p)
StartsWith(s, p) == HasAt(s, 1, p)

\* the position after the greedy \d* that starts at i
RECURSIVE DigitsEnd(_, _)
DigitsEnd(s, i) == IF IsDigit(At(s, i)) THEN DigitsEnd(s, i + 1) ELSE i

\* the position after the greedy \s* that starts at i
RECURSIVE SpacesEnd(_, _)
SpacesEnd(s, i) == IF IsSpace(At(s, i)) THEN SpacesEnd(s, i + 1) ELSE i

\* the position after the greedy \d+(?:\.\d+)? that starts at the digit at i
NumberEnd(s, i) ==
    LET j == DigitsEnd(s, i)
    IN  IF At(s, j) = "." /\ IsDigit(At(s, j + 1))
        THEN DigitsEnd(s, j + 1)
        ELSE j

\* int() of a text of digits
RECURSIVE IntOf(_)
IntOf(ds) ==
    IF ds = <<>> THEN 0
    ELSE IntOf(SubSeq(ds, 1, Len(ds) - 1)) * 10 + DigitVal(ds[Len(ds)])

RECURSIVE Pow10(_)
Pow10(k) == IF k = 0 THEN 1 ELSE 10 * Pow10(k - 1)

(***************************************************************************)
(* Numbers.  A chapter number is a Python int or float; it is kept as the  *)
(* exact fraction n/d with the flag that tells the two types apart.        *)
(***************************************************************************)
IntNum(k) == [n |-> k, d |-> 1, isfloat |-> FALSE]

\* int(num_str) or float(num_str), as the text has a '.' or not
NumberOf(num_str) ==
    IF \E i \in 1..Len(num_str) : num_str[i] = "."
    THEN LET dot  == CHOOSE i \in 1..Len(num_str) : num_str[i] = "."
             frac == SubSeq(num_str, dot + 1, Len(num_str))
         IN  [n |-> IntOf(SubSeq(num_str, 1, dot - 1)) * Pow10(Len(frac))
                      + IntOf(frac),
              d |-> Pow10(Len(frac)),
              isfloat |-> TRUE]
    ELSE IntNum(IntOf(num_str))

\* Python's == and < on numbers
NumEq(a, b) == a.n * b.d = b.n * a.d
NumLess(a, b) == a.n * b.d < b.n * a.d

(***************************************************************************)
(* _parse_chapter_number: the four patterns, in the order of the list.     *)
(* GroupAt(p, s, i) is the position of group 1 when pattern p matches s    *)
(* at position i, and 0 when it does not.                                  *)
(***************************************************************************)
NumPatterns == 4

GroupAt(p, s, i) ==
    CASE p = 1 ->   \* c(\d+(?:\.\d+)?)
           IF HasAt(s, i, <<"c">>) /\ IsDigit(At(s, i + 1)) THEN i + 1 ELSE 0
      [] p = 2 ->   \* ch\.?\s*(\d+(?:\.\d+)?)
           IF HasAt(s, i, <<"c", "h">>)
           THEN LET j == IF At(s, i + 2) = "." THEN i + 3 ELSE i + 2
                    g == SpacesEnd(s, j)
                IN  IF IsDigit(At(s, g)) THEN g ELSE 0
           ELSE 0
      [] p = 3 ->   \* chapter\s*(\d+(?:\.\d+)?)
           IF HasAt(s, i, <<"c", "h", "a", "p", "t", "e", "r">>)
           THEN LET g == SpacesEnd(s, i + 7)
                IN  IF IsDigit(At(s, g)) THEN g ELSE 0
           ELSE 0
      [] p = 4 ->   \* (\d+(?:\.\d+)?)(?:\s*-|\s*$)
           IF IsDigit(At(s, i))
           THEN LET e == SpacesEnd(s, NumberEnd(s, i))
                IN  IF e > Len(s) \/ At(s, e) = "-" THEN i ELSE 0
           ELSE 0

\* re.search(pattern, s): group 1 of the leftmost match, None without one
Search(p, s) ==
    LET starts == {i \in 1..Len(s) : GroupAt(p, s, i) # 0}
    IN  IF starts = {} THEN None
        ELSE LET i == CHOOSE a \in starts : \A b \in starts : a <= b
                 g == GroupAt(p, s, i)
             IN  SubSeq(s, g, NumberEnd(s, g) - 1)

\* a number search that answers 0 when no pattern matches
ParseNumberDefaultZero(title) ==
    LET title_lower == ToLower(title)
        matching == {p \in 1..NumPatterns : Search(p, title_lower) # None}
    IN  IF matching = {} THEN IntNum(0)
        ELSE LET p == CHOOSE a \in matching : \A b \in matching : a <= b
             IN  NumberOf(Search(p, title_lower))

\* a number search that lets the last matching pattern of the list win
ParseNumberLastPattern(title) ==
    LET title_lower == ToLower(title)
        matching == {p \in 1..NumPatterns : Search(p, title_lower) # None}
    IN  IF matching = {} THEN IntNum(1)
        ELSE LET p == CHOOSE a \in matching : \A b \in matching : a >= b
             IN  NumberOf(Search(p, title_lower))

parse_chapter_number(title) ==
    LET title_lower == ToLower(title)
        matching == {p \in 1..NumPatterns : Search(p, title_lower) # None}
    IN  IF matching = {} THEN IntNum(1)
        ELSE LET p == CHOOSE a \in matching : \A b \in matching : a <= b
             IN  NumberOf(Search(p, title_lower))

(***************************************************************************)
(* _clean_chapter_title: four anchored substitutions applied one after the  *)
(* other, then strip(), then the synthesized label when nothing is left.    *)
(***************************************************************************)
\* the position after \s*[-:]?\s* that starts at i
SeparatorEnd(s, i) ==
    LET a == SpacesEnd(s, i)
        b == IF At(s, a) \in {"-", ":"} THEN a + 1 ELSE a
    IN  SpacesEnd(s, b)

\* the position after the match of clean pattern p at the start of s
\* (re.IGNORECASE), and 1 when the pattern does not match there
CleanEnd(p, s) ==
    LET l == ToLower(s)
        g == CASE p = 1 -> IF HasAt(l, 1, <<"c">>) THEN 2 ELSE 0
               [] p = 2 -> IF HasAt(l, 1, <<"c", "h">>)
                           THEN SpacesEnd(l, IF At(l, 3) = "." THEN 4 ELSE 3)
                           ELSE 0
               [] p = 3 -> IF HasAt(l, 1, <<"c", "h", "a", "p", "t", "e", "r">>)
                           THEN SpacesEnd(l, 8)
                           ELSE 0
               [] p = 4 -> 1
    IN  IF g # 0 /\ IsDigit(At(l, g))
        THEN SeparatorEnd(l, NumberEnd(l, g))
        ELSE 1

\* re.sub(pattern, '', s, flags=re.IGNORECASE) for the anchored pattern p
CleanSub(p, s) == SubSeq(s, CleanEnd(p, s), Len(s))

\* str.strip()
RECURSIVE LStrip(_)
LStrip(s) ==
    IF s # <<>> /\ IsSpace(s[1]) THEN LStrip(SubSeq(s, 2, Len(s))) ELSE s

RECURSIVE RStrip(_)
RStrip(s) ==
    IF s # <<>> /\ IsSpace(s[Len(s)])
    THEN RStrip(SubSeq(s, 1, Len(s) - 1))
    ELSE s

Strip(s) == LStrip(RStrip(s))

\* str() of a non-negative int
RECURSIVE IntStr(_)
IntStr(k) ==
    IF k < 10 THEN <<DigitChars[k + 1]>>
    ELSE IntStr(k \div 10) \o <<DigitChars[(k % 10) + 1]>>

\* the k digits of f, zero padded on the left
RECURSIVE FracStr(_, _)
FracStr(f, k) ==
    IF k = 0 THEN <<>>
    ELSE FracStr(f \div 10, k - 1) \o <<DigitChars[(f % 10) + 1]>>

RECURSIVE DropZeros(_)
DropZeros(ds) ==
    IF Len(ds) > 1 /\ ds[Len(ds)] = "0"
    THEN DropZeros(SubSeq(ds, 1, Len(ds) - 1))
    ELSE ds

RECURSIVE Log10(_)
Log10(d) == IF d = 1 THEN 0 ELSE 1 + Log10(d \div 10)

\* str() of a chapter number: an int as its digits, a float with its
\* fraction (at least one digit, no trailing zeros)
NumStr(v) ==
    IF v.isfloat
    THEN IntStr(v.n \div v.d) \o <<".">>
           \o (IF v.d = 1 THEN <<"0">>
               ELSE DropZeros(FracStr(v.n % v.d, Log10(v.d))))
    ELSE IntStr(v.n)

clean_chapter_title(title) ==
    LET clean_title ==
            Strip(CleanSub(4, CleanSub(3, CleanSub(2, CleanSub(1, title)))))
    IN  IF clean_title # <<>> THEN clean_title
        ELSE <<"C", "h", "a", "p", "t", "e", "r", " ">>
               \o NumStr(parse_chapter_number(title))

(***************************************************************************)
(* Python values.  An optional value is a sequence of at most one element: *)
(* <<>> is None and <<v>> is the value v.  A dict is a function from its   *)
(* keys.                                                                   *)
(***************************************************************************)
Some(v) == <<v>>

EmptyDict == [k \in {} |-> 0]

\* d[k] = v
SetKey(d, k, v) == (k :> v) @@ d

\* d.setdefault(k, v)
SetDefault(d, k, v) == IF k \in DOMAIN d THEN d ELSE SetKey(d, k, v)

\* d.get(k, v)
Get(d, k, v) == IF k \in DOMAIN d THEN d[k] ELSE v

\* sep.join(parts)
RECURSIVE Join(_, _)
Join(sep, parts) ==
    IF parts = <<>> THEN ""
    ELSE IF Len(parts) = 1 THEN parts[1]
    ELSE parts[1] \o sep \o Join(sep, Tail(parts))

(***************************************************************************)
(* A parsed page (soup) is the record of the elements the scraper looks    *)
(* for:                                                                    *)
(*   title    the stripped text of div.seriestitlenu, if the div exists    *)
(*   authors  the stripped texts of the a.genre#authtag links inside       *)
(*            div#showauthors, if the div exists                           *)
(*   description  the stripped texts of the children of                    *)
(*            div#editdescription, if the div exists                       *)
(*   genres   the .string of each link inside div#seriesgenre (None for a  *)
(*            link without a single text child), if the div exists         *)
(*   rating   the stripped text of span.uvotes, if the span exists         *)
(*   status   the text of div#editstatus, if the div exists                *)
(*   translated  the stripped text of div#showtranslated and of its first  *)
(*            link, if the div exists                                      *)
(*   imgs     the src of every img of the page ('' without one)            *)
(*   table    the tr rows of table#myTable, if the table exists            *)
(*   nav      the hrefs of the page's anchors outside the table            *)
(* A row is [cells, link, date]: the number of td cells, the first link of *)
(* the first cell (its text and href) if there is one, and the text of the *)
(* second cell ('' without one).                                           *)
(***************************************************************************)
\* soup.find_all('a', href=True): the hrefs of every anchor of the page
AllHrefs(soup) ==
    LET LinkHrefs(rows) ==
            [i \in 1..Len(rows) |->
                IF rows[i].link = <<>> THEN <<>> ELSE rows[i].link[1].href]
        tablehrefs ==
            IF soup.table = <<>> THEN <<>>
            ELSE LET HasLink(r) == r.link # <<>>
                     linked == SelectSeq(soup.table[1], HasLink)
                 IN  LinkHrefs(linked)
    IN  tablehrefs \o soup.nav

\* re.search(r'pg=(\d+)', href): int(group 1) if the pattern matches
PgValue(href) ==
    LET starts == {i \in 1..Len(href) :
                     HasAt(href, i, <<"p", "g", "=">>) /\ IsDigit(At(href, i + 3))}
    IN  IF starts = {} THEN <<>>
        ELSE LET i == CHOOSE a \in starts : \A b \in starts : a <= b
             IN  Some(IntOf(SubSeq(href, i + 3, DigitsEnd(href, i + 3) - 1)))

Max2(a, b) == IF a >= b THEN a ELSE b
Min2(a, b) == IF a <= b THEN a ELSE b

\* the loop of _find_max_page over page_links, from the running maximum
RECURSIVE MaxPageOver(_, _)
MaxPageOver(page_links, max_page) ==
    IF page_links = <<>> THEN max_page
    ELSE LET page_match == PgValue(page_links[1])
         IN  MaxPageOver(Tail(page_links),
                         IF page_match # <<>>
                         THEN Max2(max_page, page_match[1])
                         ELSE max_page)

\* soup.find_all('a', href=lambda x: x and 'pg=' in x)
PageLinks(soup) ==
    LET HasPg(h) == Contains(h, <<"p", "g", "=">>)
    IN  SelectSeq(AllHrefs(soup), HasPg)

find_max_page(soup) == MaxPageOver(PageLinks(soup), 1)

(***************************************************************************)
(* _extract_chapters_from_page                                             *)
(***************************************************************************)
\* str.strip(), for texts
RECURSIVE StripText(_)
StripText(s) ==
    IF Len(s) > 0 /\ IsSpace(SubSeq(s, 1, 1))
    THEN StripText(SubSeq(s, 2, Len(s)))
    ELSE IF Len(s) > 0 /\ IsSpace(SubSeq(s, Len(s), Len(s)))
    THEN StripText(SubSeq(s, 1, Len(s) - 1))
    ELSE s

\* the ChapterInfo of one row, if the row yields one
ChapterOfRow(row) ==
    IF row.cells < 2 THEN <<>>
    ELSE IF row.link = <<>> THEN <<>>
    ELSE LET chapter_title == Strip(row.link[1].text)
             chapter_url == row.link[1].href
         IN  IF Len(chapter_title) < 3 THEN <<>>
             ELSE Some([title |-> clean_chapter_title(chapter_title),
                        chapter_number |-> parse_chapter_number(chapter_title),
                        source_url |-> chapter_url,
                        release_date |-> Some(StripText(row.date))])

RECURSIVE ChaptersOfRows(_)
ChaptersOfRows(rows) ==
    IF rows = <<>> THEN <<>>
    ELSE ChapterOfRow(rows[1]) \o ChaptersOfRows(Tail(rows))

extract_chapters_from_page(soup) ==
    IF soup.table = <<>> THEN <<>>
    ELSE LET trs == soup.table[1]
             rows == SubSeq(trs, 2, Len(trs))   \* [1:] skips the header row
         IN  ChaptersOfRows(rows)

(***************************************************************************)
(* _extract_novel_info: title, author, and the status block.               *)
(***************************************************************************)
base_url == <<"h", "t", "t", "p", "s", ":", "/", "/", "w", "w", "w", ".", "n", "o", "v", "e", "l", "u", "p", "d", "a", "t", "e", "s", ".", "c", "o", "m">>

\* urljoin(base_url, url) for a path, with or without its leading slash
UrlJoin(base, url) ==
    IF StartsWith(url, <<"/">>) THEN base \o url ELSE base \o <<"/">> \o url

\* urljoin(self.base_url, src)
UrlOnBase(src) == UrlJoin(base_url, src)

\* re.search(r'(\d+)\s+<word>s?', text, re.IGNORECASE): int(group 1)
CountBefore(text, word) ==
    LET l == ToLower(text)
        Ok(i) == /\ IsDigit(At(l, i))
                 /\ LET j == DigitsEnd(l, i)
                        k == SpacesEnd(l, j)
                    IN  k > j /\ HasAt(l, k, word)
        starts == {i \in 1..Len(l) : Ok(i)}
    IN  IF starts = {} THEN <<>>
        ELSE LET i == CHOOSE a \in starts : \A b \in starts : a <= b
             IN  Some(IntOf(SubSeq(l, i, DigitsEnd(l, i) - 1)))

ExtractTitle(soup, novel_info) ==
    IF soup.title # <<>>
    THEN SetKey(novel_info, "title", soup.title[1])
    ELSE novel_info

\* an author extraction that joins the text of every link
ExtractAuthorAllLinks(soup, novel_info) ==
    IF soup.authors # <<>> /\ soup.authors[1] # <<>>
    THEN SetKey(novel_info, "author", Join(" & ", soup.authors[1]))
    ELSE SetKey(novel_info, "author", "Unknown Author")

ExtractAuthor(soup, novel_info) ==
    IF soup.authors # <<>>
    THEN LET author_links == soup.authors[1]
             NonEmpty(a) == a # ""
             authors == SelectSeq(author_links, NonEmpty)
         IN  IF author_links # <<>>
             THEN SetKey(novel_info, "author",
                         IF authors # <<>> THEN Join(" & ", authors)
                         ELSE "Unknown Author")
             ELSE SetKey(novel_info, "author", "Unknown Author")
    ELSE SetKey(novel_info, "author", "Unknown Author")

\* a status block that looks for 'ongoing' before 'completed'
ExtractStatusOngoingFirst(soup, novel_info) ==
    IF soup.status # <<>>
    THEN LET status_text == Strip(soup.status[1])
             chapter_match == CountBefore(status_text, <<"c", "h", "a", "p", "t", "e", "r">>)
             volume_match == CountBefore(status_text, <<"v", "o", "l", "u", "m", "e">>)
             status_text_lower == ToLower(status_text)
             a == SetKey(novel_info, "raw_status", Some(status_text))
             b == IF chapter_match # <<>>
                  THEN SetKey(SetKey(a, "total_chapters", chapter_match[1]),
                              "content_type", "chapters")
                  ELSE IF volume_match # <<>>
                  THEN SetKey(SetKey(SetKey(a,
                              "total_volumes", volume_match[1]),
                              "total_chapters", 0),
                              "content_type", "volumes")
                  ELSE SetKey(SetKey(a, "total_chapters", 0),
                              "content_type", "unknown")
         IN  SetKey(b, "status",
                    IF Contains(status_text_lower, <<"o", "n", "g", "o", "i", "n", "g">>)
                    THEN "ongoing"
                    ELSE IF \/ Contains(status_text_lower, <<"c", "o", "m", "p", "l", "e", "t", "e", "d">>)
                            \/ Contains(status_text_lower, <<"c", "o", "m", "p", "l", "e", "t", "e">>)
                    THEN "completed"
                    ELSE IF Contains(status_text_lower, <<"h", "i", "a", "t", "u", "s">>)
                    THEN "hiatus"
                    ELSE IF Contains(status_text_lower, <<"d", "r", "o", "p", "p", "e", "d">>)
                    THEN "dropped"
                    ELSE "unknown")
    ELSE SetKey(SetKey(SetKey(SetKey(novel_info,
                "total_chapters", 0),
                "content_type", "unknown"),
                "status", "unknown"),
                "raw_status", <<>>)

\* a status block that looks at the volume count before the chapter count
ExtractStatusVolumesFirst(soup, novel_info) ==
    IF soup.status # <<>>
    THEN LET status_text == Strip(soup.status[1])
             chapter_match == CountBefore(status_text, <<"c", "h", "a", "p", "t", "e", "r">>)
             volume_match == CountBefore(status_text, <<"v", "o", "l", "u", "m", "e">>)
             status_text_lower == ToLower(status_text)
             a == SetKey(novel_info, "raw_status", Some(status_text))
             b == IF volume_match # <<>>
                  THEN SetKey(SetKey(SetKey(a,
                              "total_volumes", volume_match[1]),
                              "total_chapters", 0),
                              "content_type", "volumes")
                  ELSE IF chapter_match # <<>>
                  THEN SetKey(SetKey(a, "total_chapters", chapter_match[1]),
                              "content_type", "chapters")
                  ELSE SetKey(SetKey(a, "total_chapters", 0),
                              "content_type", "unknown")
         IN  SetKey(b, "status",
                    IF \/ Contains(status_text_lower, <<"c", "o", "m", "p", "l", "e", "t", "e", "d">>)
                       \/ Contains(status_text_lower, <<"c", "o", "m", "p", "l", "e", "t", "e">>)
                    THEN "completed"
                    ELSE IF Contains(status_text_lower, <<"o", "n", "g", "o", "i", "n", "g">>)
                    THEN "ongoing"
                    ELSE IF Contains(status_text_lower, <<"h", "i", "a", "t", "u", "s">>)
                    THEN "hiatus"
                    ELSE IF Contains(status_text_lower, <<"d", "r", "o", "p", "p", "e", "d">>)
                    THEN "dropped"
                    ELSE "unknown")
    ELSE SetKey(SetKey(SetKey(SetKey(novel_info,
                "total_chapters", 0),
                "content_type", "unknown"),
                "status", "unknown"),
                "raw_status", <<>>)

ExtractStatus(soup, novel_info) ==
    IF soup.status # <<>>
    THEN LET status_text == Strip(soup.status[1])
             chapter_match == CountBefore(status_text, <<"c", "h", "a", "p", "t", "e", "r">>)
             volume_match == CountBefore(status_text, <<"v", "o", "l", "u", "m", "e">>)
             status_text_lower == ToLower(status_text)
             a == SetKey(novel_info, "raw_status", Some(status_text))
             b == IF chapter_match # <<>>
                  THEN SetKey(SetKey(a, "total_chapters", chapter_match[1]),
                              "content_type", "chapters")
                  ELSE IF volume_match # <<>>
                  THEN SetKey(SetKey(SetKey(a,
                              "total_volumes", volume_match[1]),
                              "total_chapters", 0),
                              "content_type", "volumes")
                  ELSE SetKey(SetKey(a, "total_chapters", 0),
                              "content_type", "unknown")
         IN  SetKey(b, "status",
                    IF \/ Contains(status_text_lower, <<"c", "o", "m", "p", "l", "e", "t", "e", "d">>)
                       \/ Contains(status_text_lower, <<"c", "o", "m", "p", "l", "e", "t", "e">>)
                    THEN "completed"
                    ELSE IF Contains(status_text_lower, <<"o", "n", "g", "o", "i", "n", "g">>)
                    THEN "ongoing"
                    ELSE IF Contains(status_text_lower, <<"h", "i", "a", "t", "u", "s">>)
                    THEN "hiatus"
                    ELSE IF Contains(status_text_lower, <<"d", "r", "o", "p", "p", "e", "d">>)
                    THEN "dropped"
                    ELSE "unknown")
    ELSE SetKey(SetKey(SetKey(SetKey(novel_info,
                "total_chapters", 0),
                "content_type", "unknown"),
                "status", "unknown"),
                "raw_status", <<>>)

\* s[:k], for texts
Take(s, k) == SubSeq(s, 1, IF Len(s) < k THEN Len(s) ELSE k)

\* s.replace(c, ''), for texts
RECURSIVE Without(_, _)
Without(s, c) ==
    IF Len(s) = 0 THEN s
    ELSE IF SubSeq(s, 1, 1) = c THEN Without(SubSeq(s, 2, Len(s)), c)
    ELSE SubSeq(s, 1, 1) \o Without(SubSeq(s, 2, Len(s)), c)

ExtractDescription(soup, novel_info) ==
    IF soup.description # <<>>
    THEN LET HasText(text) == text # ""
             desc_parts == SelectSeq(soup.description[1], HasText)
         IN  SetKey(novel_info, "description",
                    Take(Join(" ", desc_parts), 1000))
    ELSE novel_info

\* genre_link.string.strip() of every link whose .string is not falsy
RECURSIVE GenresOf(_)
GenresOf(links) ==
    IF links = <<>> THEN <<>>
    ELSE IF links[1] # <<>> /\ links[1][1] # ""
    THEN <<StripText(links[1][1])>> \o GenresOf(Tail(links))
    ELSE GenresOf(Tail(links))

ExtractGenres(soup, novel_info) ==
    IF soup.genres # <<>>
    THEN SetKey(novel_info, "genres", GenresOf(soup.genres[1]))
    ELSE novel_info

ExtractRating(soup, novel_info) ==
    IF soup.rating # <<>>
    THEN SetKey(novel_info, "rating",
                Without(Without(soup.rating[1], "("), ")"))
    ELSE novel_info

ExtractTranslation(soup, novel_info) ==
    IF soup.translated # <<>>
    THEN SetKey(novel_info, "translation_status",
                IF soup.translated[1].link # <<>>
                THEN soup.translated[1].link[1]
                ELSE soup.translated[1].text)
    ELSE novel_info

\* the src test of the cover loop
IsCover(src) ==
    /\ src # <<>>
    /\ \/ Contains(src, <<"c", "d", "n", ".", "n", "o", "v", "e", "l", "u", "p", "d", "a", "t", "e", "s", ".", "c", "o", "m", "/", "i", "m", "a", "g", "e", "s">>)
       \/ Contains(ToLower(src), <<"c", "o", "v", "e", "r">>)
       \/ Contains(ToLower(src), <<"h", "a", "r", "d", "c", "o", "v", "e", "r">>)

\* the first img that passes the test decides, also when none of the three
\* prefixes fits it
ExtractCover(soup, novel_info) ==
    LET found == SelectSeq(soup.imgs, IsCover)
        cover_img ==
            IF found = <<>> THEN <<>>
            ELSE IF StartsWith(found[1], <<"/", "/">>)
            THEN Some(<<"h", "t", "t", "p", "s", ":">> \o found[1])
            ELSE IF StartsWith(found[1], <<"/">>)
            THEN Some(UrlOnBase(found[1]))
            ELSE IF StartsWith(found[1], <<"h", "t", "t", "p">>)
            THEN Some(found[1])
            ELSE <<>>
    IN  SetKey(novel_info, "cover_url", cover_img)

extract_novel_info(soup) ==
    ExtractCover(soup,
    ExtractTranslation(soup,
    ExtractStatus(soup,
    ExtractRating(soup,
    ExtractGenres(soup,
    ExtractDescription(soup,
    ExtractAuthor(soup,
    ExtractTitle(soup, EmptyDict))))))))

(***************************************************************************)
(* scrape_novel_by_url, its pieces.                                        *)
(***************************************************************************)
\* the hard cap on the pages of one scrape
MaxPages == 5

\* NovelUpdatesCloudScraper(delay=6)
Delay == 6

\* if not novel_url.startswith('http'): novel_url = urljoin(...)
FullUrl(url) ==
    IF ~StartsWith(url, <<"h", "t", "t", "p">>) THEN UrlJoin(base_url, url) ELSE url

\* f"{novel_url}?pg={page}"
PageUrl(url, p) == url \o <<"?", "p", "g", "=">> \o IntStr(p)

\* the defaults without the one of genres
SetDefaultsNoGenres(novel_info) ==
    SetDefault(SetDefault(SetDefault(SetDefault(SetDefault(
    SetDefault(SetDefault(SetDefault(novel_info,
        "title", "Unknown Title"),
        "description", "No description available"),
        "status", "unknown"),
        "total_chapters", 0),
        "total_volumes", 0),
        "content_type", "unknown"),
        "raw_status", <<>>),
        "cover_url", <<>>)

\* the novel_info.setdefault(...) lines
SetDefaults(novel_info) ==
    SetDefault(SetDefault(SetDefault(SetDefault(SetDefault(
    SetDefault(SetDefault(SetDefault(SetDefault(novel_info,
        "title", "Unknown Title"),
        "description", "No description available"),
        "genres", <<>>),
        "status", "unknown"),
        "total_chapters", 0),
        "total_volumes", 0),
        "content_type", "unknown"),
        "raw_status", <<>>),
        "cover_url", <<>>)

\* a sort that puts a record before the records of equal number
RECURSIVE InsertBeforeEqual(_, _)
InsertBeforeEqual(sorted, c) ==
    IF sorted = <<>> THEN <<c>>
    ELSE IF ~NumLess(sorted[1].chapter_number, c.chapter_number)
    THEN <<c>> \o sorted
    ELSE <<sorted[1]>> \o InsertBeforeEqual(Tail(sorted), c)

RECURSIVE SortUnstable(_)
SortUnstable(chapters) ==
    IF chapters = <<>> THEN <<>>
    ELSE InsertBeforeEqual(SortUnstable(SubSeq(chapters, 1, Len(chapters) - 1)),
                           chapters[Len(chapters)])

\* list.sort(key=lambda x: x.chapter_number): a stable sort; each record
\* goes behind the records whose number is not greater than its own
RECURSIVE InsertByNumber(_, _)
InsertByNumber(sorted, c) ==
    IF sorted = <<>> THEN <<c>>
    ELSE IF NumLess(c.chapter_number, sorted[1].chapter_number)
    THEN <<c>> \o sorted
    ELSE <<sorted[1]>> \o InsertByNumber(Tail(sorted), c)

RECURSIVE SortByNumber(_)
SortByNumber(chapters) ==
    IF chapters = <<>> THEN <<>>
    ELSE InsertByNumber(SortByNumber(SubSeq(chapters, 1, Len(chapters) - 1)),
                        chapters[Len(chapters)])

\* the count is written whether or not a chapter was found
WithChaptersAlwaysCounted(novel_info, chapters) ==
    SetKey(SetKey(novel_info, "chapters", chapters),
           "total_chapters", Len(chapters))

\* novel_info['chapters'] = all_chapters, and the count if there are any
WithChapters(novel_info, chapters) ==
    LET a == SetKey(novel_info, "chapters", chapters)
    IN  IF chapters # <<>> THEN SetKey(a, "total_chapters", Len(chapters))
        ELSE a

\* the clamp left out
CapPagesOff(found) == found

\* max_page = min(max_page, 5)
CapPages(found) == Min2(found, MaxPages)

\* an outer handler that catches the requests exceptions only
WrapErrorOfRequestsOnly(e) ==
    IF e.type \in {"ConnectionError", "HTTPError"}
    THEN [type |-> "NovelUpdatesScraperError",
          msg |-> "Failed to scrape novel: " \o e.msg,
          context |-> e]
    ELSE e

\* except Exception as e: raise NovelUpdatesScraperError(...): the new
\* exception has the message as its one argument, and Python sets its
\* __context__ to the exception being handled
WrapError(e) ==
    [type |-> "NovelUpdatesScraperError",
     msg |-> "Failed to scrape novel: " \o e.msg,
     context |-> e]

\* what self.scraper.get, raise_for_status and BeautifulSoup raise
FetchErrors ==
    {[type |-> "ConnectionError", msg |-> "Connection aborted."],
     [type |-> "HTTPError", msg |-> "503 Server Error"],
     [type |-> "ParserRejectedMarkup", msg |-> "markup rejected"]}

(***************************************************************************)
(* The pages a scrape may be served.                                       *)
(***************************************************************************)
\* data rows of one table, at most
MaxRows == 2

\* chapter records of one scrape, at most
MaxChapters == 3

HeaderRow == [cells |-> 0, link |-> <<>>, date |-> ""]

PrologueRow ==
    [cells |-> 2, date |-> "01/02/21",
     link |-> Some([text |-> <<"P", "r", "o", "l", "o", "g", "u", "e">>, href |-> <<"/", "p">>])]

DawnRow ==
    [cells |-> 2, date |-> "01/09/21",
     link |-> Some([text |-> <<"c", "1", ".", "0", " ", "-", " ", "D", "a", "w", "n">>, href |-> <<"/", "a">>])]

HalfRow ==
    [cells |-> 2, date |-> "01/05/21",
     link |-> Some([text |-> <<"C", "h", ".", " ", "0", ".", "5">>, href |-> <<"/", "h">>])]

NoLinkRow ==
    [cells |-> 2, date |-> "", link |-> <<>>]

RowKinds == {PrologueRow, DawnRow, HalfRow, NoLinkRow}

Tables ==
    {<<>>} \cup
    {Some(<<HeaderRow>> \o rows) :
        rows \in UNION {[1..n -> RowKinds] : n \in 0..MaxRows}}

Navs ==
    {<<>>,
     <<<<"?", "p", "g", "=", "0">>>>,
     <<<<"?", "p", "g", "=", "2">>, <<"#", "p", "g", "=">>>>,
     <<<<"?", "p", "g", "=", "3">>, <<"/", "x", "?", "p", "g", "=", "7">>, <<"?", "p", "g", "=", "2">>>>}

\* a page with none of the elements
NoElements ==
    [title |-> <<>>, authors |-> <<>>, description |-> <<>>,
     genres |-> <<>>, rating |-> <<>>, status |-> <<>>,
     translated |-> <<>>, imgs |-> <<>>, table |-> <<>>, nav |-> <<>>]

Metas ==
    {NoElements,
     [NoElements EXCEPT
        !.title = Some("Overlord"), !.authors = Some(<<"Maruyama">>),
        !.status = Some(<<"7", " ", "C", "h", "a", "p", "t", "e", "r", "s", " ", "(", "C", "o", "m", "p", "l", "e", "t", "e", "d", ")">>)],
     [NoElements EXCEPT
        !.title = Some("Slime"), !.authors = Some(<<"Fuse", "Mitz">>),
        !.status = Some(<<"2", " ", "V", "o", "l", "u", "m", "e", "s", " ", "(", "O", "n", "g", "o", "i", "n", "g", ")">>)]}

\* page 1: every element the scrape reads
MainPages ==
    {[m EXCEPT !.table = t, !.nav = n] : m \in Metas, t \in Tables, n \in Navs}

\* pages 2, 3, ...: the scrape reads their table only
NextPages == {[NoElements EXCEPT !.table = t] : t \in Tables}

\* what the extractors give on each page above; the calls of
\* _extract_chapters_from_page, _extract_novel_info and _find_max_page in
\* scrape_novel_by_url, tabulated
ChaptersOn ==
    [soup \in MainPages \cup NextPages |-> extract_chapters_from_page(soup)]

InfoOn == [soup \in MainPages |-> extract_novel_info(soup)]

MaxPageOn == [soup \in MainPages |-> find_max_page(soup)]

PageLinksOn == [soup \in MainPages |-> PageLinks(soup)]

Urls == {<<"h", "t", "t", "p", "s", ":", "/", "/", "w", "w", "w", ".", "n", "o", "v", "e", "l", "u", "p", "d", "a", "t", "e", "s", ".", "c", "o", "m", "/", "s", "e", "r", "i", "e", "s", "/", "x", "/">>, <<"s", "e", "r", "i", "e", "s", "/", "x", "/">>}

(***************************************************************************)
(* One call of scrape_novel_by_url, fetch by fetch.                        *)
(***************************************************************************)
VARIABLES
    pc,              \* where the call stands
    novel_url,       \* the argument, made absolute
    scrape_chapters, \* the argument
    novel_info,      \* the dict under construction
    all_chapters,    \* the list under construction
    max_page,        \* the clamped page count
    page,            \* the loop variable
    log,             \* the calls made so far: get, sleep, print
    page_links,      \* page 1's anchors with 'pg=' in their href
    extracted,       \* the chapters each fetched page gave, by page
    failed_page,     \* the page whose fetch failed, 0 when none did
    result,          \* what the call returned, if it returned
    error            \* what the call raised, if it raised

vars == <<pc, novel_url, scrape_chapters, novel_info, all_chapters,
          max_page, page, log, page_links, extracted, failed_page,
          result, error>>

VARIABLES
    db_novels,       \* the rows of light_novels
    db_chapters,     \* the rows of chapters
    db_before,       \* both tables as the last request found them
    request,         \* the last request to an endpoint, if any
    response         \* its response

dbvars == <<db_novels, db_chapters, db_before, request, response>>

EmptyDb == [novels |-> {}, chapters |-> {}]

VARIABLES
    fn,              \* the extractor last called on its own, "" when none was
    fn_arg,          \* its argument
    fn_value         \* what it returned

fnvars == <<fn, fn_arg, fn_value>>

VARIABLES
    db_preferences,  \* the rows of user_preferences
    db_sessions,     \* the rows of reading_sessions
    today            \* date.today(), in days

apivars == <<db_preferences, db_sessions, today>>

VARIABLES
    ops,             \* what each thread's operation holds and where it stands
    scrapers,        \* every NovelUpdatesCloudScraper made so far
    started          \* how many operations have begun

opvars == <<ops, scrapers, started>>

\* the threads that serve requests and run background tasks
Threads == {"a", "b"}

\* a thread between two operations
Idle == [pc |-> "idle"]

Init ==
    /\ pc = "idle"
    /\ novel_url = <<>>
    /\ scrape_chapters = FALSE
    /\ novel_info = EmptyDict
    /\ all_chapters = <<>>
    /\ max_page = 1
    /\ page = 1
    /\ log = <<>>
    /\ page_links = <<>>
    /\ extracted = <<>>
    /\ failed_page = 0
    /\ result = <<>>
    /\ error = <<>>
    /\ db_novels = {}
    /\ db_chapters = {}
    /\ db_before = EmptyDb
    /\ request = <<>>
    /\ response = <<>>
    /\ fn = ""
    /\ fn_arg = <<>>
    /\ fn_value = <<>>
    /\ db_preferences = {}
    /\ db_sessions = {}
    /\ today = 1
    /\ ops = [t \in Threads |-> Idle]
    /\ scrapers = <<>>
    /\ started = 0

GetEvent(p, url) == [op |-> "get", page |-> p, url |-> url]
SleepEvent(secs2) == [op |-> "sleep", halves |-> secs2]
PrintEvent(p) == [op |-> "print", page |-> p]

\* scrape_novel_by_url(novel_url, scrape_chapters) is entered
Call(url, flag) ==
    /\ pc = "idle"
    /\ novel_url' = FullUrl(url)
    /\ scrape_chapters' = flag
    /\ pc' = "main"
    /\ UNCHANGED <<novel_info, all_chapters, max_page, page, log,
                   page_links, extracted, failed_page, result, error>>
    /\ UNCHANGED <<dbvars, fnvars, apivars, opvars>>

\* the main page is fetched and parsed: metadata, defaults, and with
\* scrape_chapters its chapters and the page count
GetMainPage(soup) ==
    /\ pc = "main"
    /\ Len(ChaptersOn[soup]) <= MaxChapters
    /\ log' = Append(log, GetEvent(1, novel_url))
    /\ LET info == SetDefaults(SetKey(InfoOn[soup],
                                      "source_url", novel_url))
       IN  IF scrape_chapters
           THEN /\ novel_info' = info
                /\ all_chapters' = ChaptersOn[soup]
                /\ max_page' = CapPages(MaxPageOn[soup])
                /\ page' = 2
                /\ page_links' = PageLinksOn[soup]
                /\ extracted' = <<ChaptersOn[soup]>>
                /\ pc' = "loop"
                /\ UNCHANGED result
           ELSE /\ novel_info' = SetKey(info, "chapters", <<>>)
                /\ result' = Some(SetKey(info, "chapters", <<>>))
                /\ pc' = "returned"
                /\ UNCHANGED <<all_chapters, max_page, page, page_links,
                               extracted>>
    /\ UNCHANGED <<novel_url, scrape_chapters, failed_page, error>>
    /\ UNCHANGED <<dbvars, fnvars, apivars, opvars>>

\* the fetch or the parse of the main page raises: the outer handler
GetMainPageFails(e) ==
    /\ pc = "main"
    /\ log' = Append(log, GetEvent(1, novel_url))
    /\ failed_page' = 1
    /\ error' = Some(WrapError(e))
    /\ pc' = "raised"
    /\ UNCHANGED <<novel_url, scrape_chapters, novel_info, all_chapters,
                   max_page, page, page_links, extracted, result>>
    /\ UNCHANGED <<dbvars, fnvars, apivars, opvars>>

\* for page in range(2, max_page + 1): the page is fetched and extracted
GetNextPage(soup) ==
    LET page_chapters == ChaptersOn[soup]
    IN  /\ pc = "loop"
        /\ page <= max_page
        /\ Len(all_chapters) + Len(page_chapters) <= MaxChapters
        /\ log' = Append(log, GetEvent(page, PageUrl(novel_url, page)))
        /\ all_chapters' = all_chapters \o page_chapters
        /\ extracted' = Append(extracted, page_chapters)
        /\ pc' = "sleep"
        /\ UNCHANGED <<novel_url, scrape_chapters, novel_info, max_page,
                       page, page_links, failed_page, result, error>>
        /\ UNCHANGED <<dbvars, fnvars, apivars, opvars>>

\* time.sleep(self.delay / 2), then the next turn of the loop
Sleep ==
    /\ pc = "sleep"
    /\ log' = Append(log, SleepEvent(Delay))
    /\ page' = page + 1
    /\ pc' = "loop"
    /\ UNCHANGED <<novel_url, scrape_chapters, novel_info, all_chapters,
                   max_page, page_links, extracted, failed_page, result,
                   error>>
    /\ UNCHANGED <<dbvars, fnvars, apivars, opvars>>

\* a later page's failure treated like the main page's
GetNextPageFailsRaises(e) ==
    /\ pc = "loop"
    /\ page <= max_page
    /\ log' = Append(log, GetEvent(page, PageUrl(novel_url, page)))
    /\ failed_page' = page
    /\ error' = Some(WrapError(e))
    /\ pc' = "raised"
    /\ UNCHANGED <<novel_url, scrape_chapters, novel_info, all_chapters,
                   max_page, page, page_links, extracted, result>>
    /\ UNCHANGED <<dbvars, fnvars, apivars, opvars>>

\* continue instead of break
GetNextPageFailsContinues(e) ==
    /\ pc = "loop"
    /\ page <= max_page
    /\ log' = log \o <<GetEvent(page, PageUrl(novel_url, page)),
                       PrintEvent(page)>>
    /\ failed_page' = page
    /\ page' = page + 1
    /\ UNCHANGED <<pc, novel_url, scrape_chapters, novel_info, all_chapters,
                   max_page, page_links, extracted, result, error>>
    /\ UNCHANGED <<dbvars, fnvars, apivars, opvars>>

\* the fetch of a later page raises: the warning, and break
GetNextPageFails(e) ==
    /\ pc = "loop"
    /\ page <= max_page
    /\ log' = log \o <<GetEvent(page, PageUrl(novel_url, page)),
                       PrintEvent(page)>>
    /\ failed_page' = page
    /\ pc' = "sort"
    /\ UNCHANGED <<novel_url, scrape_chapters, novel_info, all_chapters,
                   max_page, page, page_links, extracted, result, error>>
    /\ UNCHANGED <<dbvars, fnvars, apivars, opvars>>

\* the range is exhausted
LoopEnd ==
    /\ pc = "loop"
    /\ page > max_page
    /\ pc' = "sort"
    /\ UNCHANGED <<novel_url, scrape_chapters, novel_info, all_chapters,
                   max_page, page, log, page_links, extracted, failed_page,
                   result, error>>
    /\ UNCHANGED <<dbvars, fnvars, apivars, opvars>>

\* sort, store the chapters, count them, return
Return ==
    /\ pc = "sort"
    /\ all_chapters' = SortByNumber(all_chapters)
    /\ novel_info' = WithChapters(novel_info, SortByNumber(all_chapters))
    /\ result' = Some(WithChapters(novel_info, SortByNumber(all_chapters)))
    /\ pc' = "returned"
    /\ UNCHANGED <<novel_url, scrape_chapters, max_page, page, log,
                   page_links, extracted, failed_page, error>>
    /\ UNCHANGED <<dbvars, fnvars, apivars, opvars>>

Next ==
    \/ pc = "idle" /\ \E url \in Urls, flag \in BOOLEAN : Call(url, flag)
    \/ pc = "main" /\ \E soup \in MainPages : GetMainPage(soup)
    \/ pc = "main" /\ \E e \in FetchErrors : GetMainPageFails(e)
    \/ pc = "loop" /\ \E soup \in NextPages : GetNextPage(soup)
    \/ Sleep
    \/ pc = "loop" /\ \E e \in FetchErrors : GetNextPageFails(e)
    \/ LoopEnd
    \/ Return

Spec == Init /\ [][Next]_<<vars, dbvars, fnvars, apivars, opvars>>

(***************************************************************************)
(* What the scrape is claimed to do.                                       *)
(***************************************************************************)
RECURSIVE Flatten(_)
Flatten(lists) ==
    IF lists = <<>> THEN <<>> ELSE lists[1] \o Flatten(Tail(lists))

Range(s) == {s[i] : i \in DOMAIN s}

Occurrences(s, c) == Cardinality({i \in DOMAIN s : s[i] = c})

\* the same records, each as often, in any order
SameRecords(a, b) ==
    /\ Len(a) = Len(b)
    /\ \A c \in Range(a) \cup Range(b) : Occurrences(a, c) = Occurrences(b, c)

SetMax(S) == CHOOSE m \in S : \A v \in S : v <= m

IsGet(ev) == ev.op = "get"

\* the get calls so far, in order
Gets == SelectSeq(log, IsGet)

RequestedPages == {Gets[i].page : i \in DOMAIN Gets}

\* the pg=<n> values among the anchor hrefs of page 1
PgValuesSeen ==
    {PgValue(page_links[i])[1] :
        i \in {k \in DOMAIN page_links : PgValue(page_links[k]) # <<>>}}

\* C1: when the fetch of a later page k fails, the call raises nothing and
\* goes on to return; pages 1..k are the only ones requested, and the
\* chapters held and returned are exactly those extracted from pages 1..k-1.
C1_PartialFailureKeepsChapters ==
    failed_page >= 2 =>
        /\ error = <<>>
        /\ pc \in {"sort", "returned"}
        /\ RequestedPages = 1..failed_page
        /\ Len(extracted) = failed_page - 1
        /\ SameRecords(all_chapters, Flatten(extracted))
        /\ pc = "returned" =>
              /\ result # <<>>
              /\ SameRecords(result[1].chapters, Flatten(extracted))

\* page 2 failed and the chapters of page 1 were returned
C1_Witness ==
    /\ pc = "returned"
    /\ failed_page = 2
    /\ result # <<>>
    /\ result[1].chapters # <<>>

\* C2 as stated: the pages requested lie in 1..min(M, 5), M the largest
\* pg=<n> value among page 1's hrefs and 1 when there is none.
C2_PagesWithinLargestPg ==
    RequestedPages \subseteq
        1..Min2(IF PgValuesSeen = {} THEN 1 ELSE SetMax(PgValuesSeen),
                MaxPages)

\* C2, amended: the pages requested lie in 1..min(M, 5), M the larger of 1
\* and the largest pg=<n> value among page 1's hrefs; never more than 5
\* pages are requested.
C2_PagesWithinCap ==
    /\ RequestedPages \subseteq
          1..Min2(SetMax(PgValuesSeen \cup {1}), MaxPages)
    /\ Len(Gets) <= MaxPages

\* page 1 announces more than 5 pages and page 5 was requested
C2_Witness ==
    /\ \E v \in PgValuesSeen : v > MaxPages
    /\ MaxPages \in RequestedPages

\* C3: when page 1 fails the call returns nothing and raises; whatever the
\* failure, what the call raises is a NovelUpdatesScraperError.
C3_MainPageFailureIsScrapeError ==
    /\ failed_page = 1 => pc = "raised" /\ result = <<>>
    /\ pc = "raised" => error # <<>>
    /\ error # <<>> => error[1].type = "NovelUpdatesScraperError"

\* the parse of page 1 failed and the call raised
C3_Witness ==
    /\ pc = "raised"
    /\ error # <<>>
    /\ error[1].msg = "Failed to scrape novel: markup rejected"

\* C4: the chapters a full scrape returns ascend by chapter_number, and the
\* records of one number stand in the order they were collected in (page
\* by page, row by row).
C4_SortedAndStable ==
    pc = "returned" /\ scrape_chapters =>
        LET out == result[1].chapters
            collected == Flatten(extracted)
        IN  /\ \A i, j \in DOMAIN out :
                  i < j => ~NumLess(out[j].chapter_number,
                                    out[i].chapter_number)
            /\ SameRecords(out, collected)
            /\ \A c \in Range(collected) :
                  LET SameNumber(k) ==
                          NumEq(k.chapter_number, c.chapter_number)
                  IN  SelectSeq(out, SameNumber)
                        = SelectSeq(collected, SameNumber)

\* two different records of one number were returned, and the sort had to
\* move a record
C4_Witness ==
    /\ pc = "returned"
    /\ scrape_chapters
    /\ result # <<>>
    /\ result[1].chapters # Flatten(extracted)
    /\ \E i, j \in DOMAIN result[1].chapters :
          /\ i < j
          /\ result[1].chapters[i] # result[1].chapters[j]
          /\ NumEq(result[1].chapters[i].chapter_number,
                   result[1].chapters[j].chapter_number)

\* the chapter count the status text of page 1 gives, 0 without one
StatusCount(raw_status) ==
    IF raw_status = <<>> THEN 0
    ELSE LET m == CountBefore(raw_status[1], <<"c", "h", "a", "p", "t", "e", "r">>)
         IN  IF m = <<>> THEN 0 ELSE m[1]

\* C5: in the record returned, total_chapters is the number of chapter
\* records when there is one at least, and the count of the status text
\* otherwise.
C5_TotalChapters ==
    pc = "returned" =>
        LET r == result[1]
        IN  IF r.chapters # <<>>
            THEN r.total_chapters = Len(r.chapters)
            ELSE r.total_chapters = StatusCount(r.raw_status)

\* chapters were returned and their number is not the status text's count
C5_Witness ==
    /\ pc = "returned"
    /\ result # <<>>
    /\ result[1].chapters # <<>>
    /\ result[1].total_chapters # StatusCount(result[1].raw_status)
    /\ StatusCount(result[1].raw_status) > 0

\* _make_request(url, retries=3)
Retries == 3

\* C8: a page fetch fails only after it was tried as often as the retry
\* bound says.
C8_FetchRetriedBeforeFailing ==
    failed_page # 0 =>
        Cardinality({i \in DOMAIN Gets : Gets[i].page = failed_page})
            >= Retries

\* C9: between two get calls there is a sleep.
C9_DelayBetweenFetches ==
    \A i, j \in DOMAIN log :
        i < j /\ log[i].op = "get" /\ log[j].op = "get" =>
            \E k \in (i + 1)..(j - 1) : log[k].op = "sleep"

\* C10: the i-th page requested is page i; a page is requested only when
\* every page before it was fetched and extracted, so that a failed page is
\* the last one requested; until the sort the list holds the pages'
\* chapters in page order.
C10_SequentialInPageOrder ==
    /\ \A i \in DOMAIN Gets : Gets[i].page = i
    /\ failed_page # 0 => Gets[Len(Gets)].page = failed_page
    /\ scrape_chapters =>
          Len(extracted) = Len(Gets) - (IF failed_page # 0 THEN 1 ELSE 0)
    /\ scrape_chapters /\ pc \in {"loop", "sleep", "sort"} =>
          all_chapters = Flatten(extracted)

\* three pages were fetched, the first and the third with chapters
C10_Witness ==
    /\ pc = "returned"
    /\ Len(extracted) >= 3
    /\ extracted[1] # <<>>
    /\ extracted[3] # <<>>

(***************************************************************************)
(* The import and update endpoints over the database.  A request finds     *)
(* the site in some condition: each page it asks for is answered with a    *)
(* document or with an exception.                                          *)
(***************************************************************************)
Page(soup) == [soup |-> Some(soup), e |-> <<>>]
Failure(e) == [soup |-> <<>>, e |-> Some(e)]

\* the chapter tables of the two series
PrologueTable == Some(<<HeaderRow, PrologueRow>>)
DawnHalfTable == Some(<<HeaderRow, DawnRow, HalfRow>>)

DbNavs == {<<>>, <<<<"?", "p", "g", "=", "2">>, <<"#", "p", "g", "=">>>>}

\* Overlord has one table and perhaps a second page; Slime has one page,
\* with a table or without
DbMainPages ==
    {soup \in MainPages :
        \/ /\ soup.title = Some("Overlord")
           /\ soup.table = PrologueTable
           /\ soup.nav \in DbNavs
        \/ /\ soup.title = Some("Slime")
           /\ soup.table \in {<<>>, DawnHalfTable}
           /\ soup.nav = <<>>}

DbNextPages == {soup \in NextPages : soup.table = DawnHalfTable}

DbErrors == {e \in FetchErrors : e.type = "HTTPError"}

\* main: the answer to the series page; later: the answers to ?pg=2, ...
Sites ==
    [main : {Page(soup) : soup \in DbMainPages}
                \cup {Failure(e) : e \in DbErrors},
     later : {<<Page(soup)>> : soup \in DbNextPages}
                \cup {<<Failure(e)>> : e \in DbErrors}]

DbUrls ==
    {<<"h", "t", "t", "p", "s", ":", "/", "/", "w", "w", "w", ".", "n", "o", "v", "e", "l", "u", "p", "d", "a", "t", "e", "s", ".", "c", "o", "m", "/", "s", "e", "r", "i", "e", "s", "/", "x", "/">>,
     <<"h", "t", "t", "p", ":", "/", "/", "e", "x", "a", "m", "p", "l", "e", ".", "o", "r", "g", "/", "x">>}

Raised(e) == [raised |-> Some(e), value |-> <<>>]
Returned(v) == [raised |-> <<>>, value |-> Some(v)]

\* for page in range(2, max_page + 1): ... except Exception: break
RECURSIVE LaterPages(_, _, _, _)
LaterPages(site, p, last_page, chapters_so_far) ==
    IF p > last_page THEN chapters_so_far
    ELSE IF p - 1 > Len(site.later) THEN chapters_so_far
    ELSE IF site.later[p - 1].soup = <<>> THEN chapters_so_far
    ELSE LaterPages(site, p + 1, last_page,
                    chapters_so_far \o ChaptersOn[site.later[p - 1].soup[1]])

\* one whole call of scrape_novel_by_url against a site
scrape_novel_by_url(site, url, with_chapters) ==
    IF site.main.soup = <<>> THEN Raised(WrapError(site.main.e[1]))
    ELSE LET soup == site.main.soup[1]
             info == SetDefaults(SetKey(InfoOn[soup],
                                        "source_url", FullUrl(url)))
         IN  IF with_chapters
             THEN Returned(WithChapters(info,
                     SortByNumber(LaterPages(site, 2,
                                             CapPages(MaxPageOn[soup]),
                                             ChaptersOn[soup]))))
             ELSE Returned(SetKey(info, "chapters", <<>>))

\* the calls of scrape_novel_by_url the two services can make: the url
\* asked for, and what the scrape gives with the site as it is
Scrapes ==
    {[url |-> url, scraped |-> scrape_novel_by_url(site, url, TRUE)] :
        site \in Sites, url \in DbUrls}

ValueError(msg) == [type |-> "ValueError", msg |-> msg]

\* p in s, for texts
InStr(s, p) ==
    \E i \in 1..(Len(s) - Len(p) + 1) : SubSeq(s, i, i + Len(p) - 1) = p

\* the integer primary key of a new row
NewId(rows) ==
    IF rows = {} THEN 1
    ELSE 1 + (CHOOSE m \in {r.id : r \in rows} : \A r \in rows : r.id <= m)

\* a number as the Float column holds it
Float(num) == [num EXCEPT !.isfloat = TRUE]

\* json.dumps of a list of texts
RECURSIVE Quoted(_)
Quoted(texts) ==
    IF texts = <<>> THEN <<>>
    ELSE <<"\"" \o texts[1] \o "\"">> \o Quoted(Tail(texts))

json_dumps(texts) == "[" \o Join(", ", Quoted(texts)) \o "]"

\* db.add(Chapter(...)) for each record, in order
RECURSIVE AddChapters(_, _, _)
AddChapters(rows, novel_id, chapters_data) ==
    IF chapters_data = <<>> THEN rows
    ELSE AddChapters(
            rows \cup {[id |-> NewId(rows),
                        novel_id |-> novel_id,
                        number |-> Float(chapters_data[1].chapter_number),
                        title |-> chapters_data[1].title,
                        source_url |-> chapters_data[1].source_url]},
            novel_id, Tail(chapters_data))

\* the uniqueness check left out
NoExistingNovel(rows, title, author) == {}

\* db.query(LightNovel).filter(title == title, author == author)
ExistingNovel(rows, title, author) ==
    {n \in rows : n.title = title /\ n.author = author}

\* db.add(db_novel); db.flush(); the chapters; db.commit()
CreateScraped(db, novelupdates_url, scraped_data) ==
    LET db_novel ==
            [id |-> NewId(db.novels),
             title |-> Get(scraped_data, "title", "Unknown Title"),
             author |-> Get(scraped_data, "author", "Unknown Author"),
             description |-> Get(scraped_data, "description", ""),
             status |-> Get(scraped_data, "status", "unknown"),
             genres |-> json_dumps(Get(scraped_data, "genres", <<>>)),
             source_url |-> Get(scraped_data, "source_url",
                                novelupdates_url),
             cover_url |-> Get(scraped_data, "cover_url", <<>>),
             total_chapters |-> Get(scraped_data, "total_chapters", 0),
             total_volumes |-> Get(scraped_data, "total_volumes", 0),
             content_type |-> Get(scraped_data, "content_type",
                                  "unknown"),
             raw_status |-> Get(scraped_data, "raw_status", <<>>)]
    IN  [db |-> [novels |-> db.novels \cup {db_novel},
                 chapters |-> AddChapters(db.chapters, db_novel.id,
                                 Get(scraped_data, "chapters", <<>>))],
         value |-> Some(db_novel.id),
         raised |-> <<>>]

\* raise ValueError(f"Novel '{title}' by {author} already exists")
AlreadyExists(db, scraped_data) ==
    [db |-> db, value |-> <<>>,
     raised |-> Some(ValueError(
         "Novel '" \o Get(scraped_data, "title", "Unknown Title")
             \o "' by " \o Get(scraped_data, "author", "Unknown Author")
             \o " already exists"))]

scrape_and_create_novel(db, novelupdates_url, scraped) ==
    IF ~StartsWith(novelupdates_url, <<"h", "t", "t", "p">>)
    THEN [db |-> db, value |-> <<>>,
          raised |-> Some(ValueError("Only NovelUpdates URLs are supported. Search functionality has been removed."))]
    ELSE
        IF scraped.raised # <<>>
        THEN [db |-> db, value |-> <<>>, raised |-> scraped.raised]
        ELSE
        LET scraped_data == scraped.value[1]
            title == Get(scraped_data, "title", "Unknown Title")
            author == Get(scraped_data, "author", "Unknown Author")
        IN  IF ExistingNovel(db.novels, title, author) # {}
            THEN AlreadyExists(db, scraped_data)
            ELSE CreateScraped(db, novelupdates_url, scraped_data)

\* every scraped record is taken, stored or not
NewChaptersAll(chapters_data, existing_chapter_numbers) == chapters_data

\* only the records past the last stored number are taken
NewChaptersAfterLast(chapters_data, existing_chapter_numbers) ==
    LET AfterAll(chapter_info) ==
            \A x \in existing_chapter_numbers :
                NumLess(x, chapter_info.chapter_number)
    IN  SelectSeq(chapters_data, AfterAll)

\* if chapter_info.chapter_number not in existing_chapter_numbers
NewChapters(chapters_data, existing_chapter_numbers) ==
    LET NotIn(chapter_info) ==
            \A x \in existing_chapter_numbers :
                ~NumEq(chapter_info.chapter_number, x)
    IN  SelectSeq(chapters_data, NotIn)

update_novel_chapters(db, novel_id, novelupdates_url, scraped) ==
    IF {n \in db.novels : n.id = novel_id} = {}
    THEN [db |-> db, value |-> <<>>,
          raised |-> Some(ValueError(
              "Novel with ID " \o ToString(novel_id) \o " not found"))]
    ELSE
    LET db_novel == CHOOSE n \in db.novels : n.id = novel_id
    IN  IF scraped.raised # <<>>
        THEN [db |-> db, value |-> <<>>, raised |-> scraped.raised]
        ELSE
        LET scraped_data == scraped.value[1]
            existing_chapter_numbers ==
                {c.number : c \in {x \in db.chapters : x.novel_id = novel_id}}
            source == Get(scraped_data, "source_url", <<>>)
            updated ==
                IF source # <<>> /\ db_novel.source_url # source
                THEN [db_novel EXCEPT !.source_url = source]
                ELSE db_novel
        IN  [db |-> [novels |-> (db.novels \ {db_novel}) \cup {updated},
                     chapters |-> AddChapters(db.chapters, novel_id,
                                     NewChapters(
                                         Get(scraped_data, "chapters", <<>>),
                                         existing_chapter_numbers))],
             value |-> Some(novel_id),
             raised |-> <<>>]

\* url.startswith('http') and 'novelupdates.com' in url.lower()
validate_url(url) ==
    /\ url # <<>>
    /\ StartsWith(url, <<"h", "t", "t", "p">>)
    /\ Contains(ToLower(url), <<"n", "o", "v", "e", "l", "u", "p", "d", "a", "t", "e", "s", ".", "c", "o", "m">>)

HTTPException(status_code, text, url) ==
    [status_code |-> status_code, detail |-> text, url |-> url]

InvalidUrl ==
    HTTPException(400, "Invalid URL. Only NovelUpdates URLs are supported.",
                  <<>>)

\* the detail texts name the url where {url} stands
handle_scraper_exception(e, url) ==
    IF e.type = "NovelUpdatesScraperError"
    THEN HTTPException(400, "Failed to scrape from {url}: " \o e.msg, url)
    ELSE IF e.type = "ValueError" /\ InStr(e.msg, "already exists")
    THEN HTTPException(409, e.msg, <<>>)
    ELSE IF e.type = "ValueError"
    THEN HTTPException(400, e.msg, <<>>)
    ELSE HTTPException(500,
             "Unexpected error while processing {url}: " \o e.msg, url)

\* the novel the endpoint answers with
Success(status_code, novel_id) ==
    [status_code |-> status_code, detail |-> "", url |-> <<>>,
     novel_id |-> novel_id]

Db == [novels |-> db_novels, chapters |-> db_chapters]

\* POST /scraper/import
import_novel(url, scraped) ==
    /\ db_before' = Db
    /\ IF ~validate_url(url)
       THEN /\ request' = Some([op |-> "import", url |-> url, novel_id |-> 0,
                                scraped |-> <<>>])
            /\ response' = Some(InvalidUrl)
            /\ UNCHANGED <<db_novels, db_chapters>>
       ELSE LET r == scrape_and_create_novel(Db, url, scraped)
            IN  /\ request' = Some([op |-> "import", url |-> url,
                        novel_id |-> 0,
                        scraped |-> scraped.value])
                /\ db_novels' = r.db.novels
                /\ db_chapters' = r.db.chapters
                /\ response' =
                      IF r.raised # <<>>
                      THEN Some(handle_scraper_exception(r.raised[1], url))
                      ELSE Some(Success(201, r.value[1]))
    /\ UNCHANGED <<vars, fnvars, apivars, opvars>>

\* POST /scraper/update/{novel_id}
update_novel_from_source(novel_id, url, scraped) ==
    /\ db_before' = Db
    /\ IF ~validate_url(url)
       THEN /\ request' = Some([op |-> "update", url |-> url,
                                novel_id |-> novel_id, scraped |-> <<>>])
            /\ response' = Some(InvalidUrl)
            /\ UNCHANGED <<db_novels, db_chapters>>
       ELSE LET r == update_novel_chapters(Db, novel_id, url, scraped)
            IN  /\ request' = Some([op |-> "update", url |-> url,
                        novel_id |-> novel_id,
                        scraped |-> scraped.value])
                /\ db_novels' = r.db.novels
                /\ db_chapters' = r.db.chapters
                /\ response' =
                      IF r.raised = <<>>
                      THEN Some(Success(200, r.value[1]))
                      ELSE IF r.raised[1].type = "ValueError"
                      THEN IF InStr(r.raised[1].msg, "not found")
                           THEN Some(HTTPException(404, r.raised[1].msg, <<>>))
                           ELSE Some(HTTPException(400, r.raised[1].msg, <<>>))
                      ELSE Some(handle_scraper_exception(r.raised[1], url))
    /\ UNCHANGED <<vars, fnvars, apivars, opvars>>

\* the ids a request may name: the stored ones and one that is not
NovelIds == 1..(Cardinality(db_novels) + 1)

NextDb ==
    \/ \E call \in Scrapes : import_novel(call.url, call.scraped)
    \/ \E novel_id \in NovelIds, call \in Scrapes :
          update_novel_from_source(novel_id, call.url, call.scraped)

SpecDb == Init /\ [][NextDb]_<<vars, dbvars, fnvars, apivars, opvars>>

(***************************************************************************)
(* What the endpoints are claimed to do.                                   *)
(***************************************************************************)
\* C6: an update that succeeds keeps every chapter row there was, and adds
\* to the novel one row for each scraped record whose number none of the
\* novel's rows had before, with the record's number, title and source_url,
\* and no other row.
C6_UpdateAddsNewKeepsOld ==
    /\ request # <<>>
    /\ request[1].op = "update"
    /\ response[1].status_code = 200
    =>
    LET id == request[1].novel_id
        before == {c \in db_before.chapters : c.novel_id = id}
        records == Get(request[1].scraped[1], "chapters", <<>>)
        IsNew(r) == \A c \in before : ~NumEq(c.number, r.chapter_number)
        new == SelectSeq(records, IsNew)
        added == db_chapters \ db_before.chapters
    IN  /\ db_before.chapters \subseteq db_chapters
        /\ \A c \in added : c.novel_id = id
        /\ Cardinality(added) = Len(new)
        /\ \A i \in DOMAIN new :
              \E c \in added :
                  /\ NumEq(c.number, new[i].chapter_number)
                  /\ c.title = new[i].title
                  /\ c.source_url = new[i].source_url

\* an update of a novel with chapters added a row below a stored number and
\* passed over a record whose number was stored
C6_Witness ==
    /\ request # <<>>
    /\ request[1].op = "update"
    /\ response[1].status_code = 200
    /\ \E c \in db_chapters \ db_before.chapters :
          \E b \in db_before.chapters :
              b.novel_id = c.novel_id /\ NumLess(c.number, b.number)
    /\ Cardinality(db_chapters \ db_before.chapters)
          < Len(Get(request[1].scraped[1], "chapters", <<>>))

\* C7: an import that scrapes the title and the author of a stored novel
\* is answered 409 with an 'already exists' detail and leaves both tables
\* as they were.
C7_DuplicateImportRejected ==
    /\ request # <<>>
    /\ request[1].op = "import"
    /\ request[1].scraped # <<>>
    /\ \E n \in db_before.novels :
          /\ n.title = Get(request[1].scraped[1], "title", "")
          /\ n.author = Get(request[1].scraped[1], "author", "")
    =>
    /\ response[1].status_code = 409
    /\ InStr(response[1].detail, "already exists")
    /\ db_novels = db_before.novels
    /\ db_chapters = db_before.chapters

\* an import was answered 409 while another novel was imported before
C7_Witness ==
    /\ request # <<>>
    /\ request[1].op = "import"
    /\ response[1].status_code = 409
    /\ Cardinality(db_novels) = 2

(***************************************************************************)
(* The two title functions, called on one link text as                     *)
(* _extract_chapters_from_page calls them.                                 *)
(***************************************************************************)
\* pieces of one link text, at most
MaxTokens == 3

Tokens ==
    {<<"c", "1">>,
     <<"c", "h", ".">>,
     <<"C", "h", "a", "p", "t", "e", "r", " ">>,
     <<"2">>,
     <<".", "5">>,
     <<" ">>,
     <<"-">>,
     <<":", " ">>,
     <<"D", "a", "w", "n">>}

RECURSIVE Concat(_)
Concat(pieces) ==
    IF pieces = <<>> THEN <<>> ELSE pieces[1] \o Concat(Tail(pieces))

\* the link texts: every run of at most MaxTokens pieces
Titles ==
    {Concat(pieces) :
        pieces \in UNION {[1..n -> Tokens] : n \in 0..MaxTokens}}

\* chapter_num = self._parse_chapter_number(chapter_title)
\* clean_title = self._clean_chapter_title(chapter_title)
ParseTitle(chapter_title) ==
    /\ fn = ""
    /\ fn' = "title"
    /\ fn_arg' = chapter_title
    /\ fn_value' = [chapter_number |-> parse_chapter_number(chapter_title),
                    title |-> clean_chapter_title(chapter_title)]
    /\ UNCHANGED <<vars, dbvars, apivars, opvars>>

NextTitle == \E chapter_title \in Titles : ParseTitle(chapter_title)

SpecTitle == Init /\ [][NextTitle]_<<vars, dbvars, fnvars, apivars, opvars>>

(***************************************************************************)
(* What the title functions are claimed to do.                             *)
(***************************************************************************)
\* pattern p matches somewhere in the lowered title l
Matches(p, l) == \E i \in 1..Len(l) : GroupAt(p, l, i) # 0

\* group 1 of the leftmost match of pattern p in the lowered title l
Captured(p, l) ==
    LET i == CHOOSE a \in 1..Len(l) :
                /\ GroupAt(p, l, a) # 0
                /\ \A b \in 1..(a - 1) : GroupAt(p, l, b) = 0
        g == GroupAt(p, l, i)
    IN  SubSeq(l, g, NumberEnd(l, g) - 1)

\* the lowered title the functions were called on
Lowered == ToLower(fn_arg)

\* a text int() or float() takes: digits, or digits '.' digits
IsNumeral(text) ==
    /\ text # <<>>
    /\ \A i \in 1..Len(text) : IsDigit(text[i]) \/ text[i] = "."
    /\ Cardinality({i \in 1..Len(text) : text[i] = "."}) <= 1
    /\ IsDigit(text[1])
    /\ IsDigit(text[Len(text)])

\* C15: whatever the title, every text a pattern captures is one int() or
\* float() takes, so that nothing is raised; the number returned is not
\* negative; and it is the integer 1 when no pattern matches.
C15_ParseNumberTotal ==
    fn = "title" =>
        /\ \A p \in 1..NumPatterns :
              Matches(p, Lowered) => IsNumeral(Captured(p, Lowered))
        /\ fn_value.chapter_number.n >= 0
        /\ fn_value.chapter_number.d >= 1
        /\ (\A p \in 1..NumPatterns : ~Matches(p, Lowered)) =>
              fn_value.chapter_number = IntNum(1)

\* a title with text and no number gave 1
C15_Witness ==
    /\ fn = "title"
    /\ Len(fn_arg) > 3
    /\ \A p \in 1..NumPatterns : ~Matches(p, Lowered)
    /\ fn_value.chapter_number = IntNum(1)

\* C16: the number returned is the one the first pattern of the list that
\* matches captures, a float when the captured text has a '.', and an int
\* when it has none.
C16_FirstPatternWins ==
    fn = "title" =>
        \A p \in 1..NumPatterns :
            /\ Matches(p, Lowered)
            /\ \A q \in 1..(p - 1) : ~Matches(q, Lowered)
            =>
            LET text == Captured(p, Lowered)
                dotted == \E i \in 1..Len(text) : text[i] = "."
            IN  /\ fn_value.chapter_number.isfloat = dotted
                /\ NumEq(fn_value.chapter_number, NumberOf(text))
                /\ ~dotted => fn_value.chapter_number.d = 1

\* the first pattern won over a later one that captures another number
C16_Witness ==
    /\ fn = "title"
    /\ Matches(1, Lowered)
    /\ \E q \in 2..NumPatterns :
          /\ Matches(q, Lowered)
          /\ ~NumEq(NumberOf(Captured(q, Lowered)),
                    NumberOf(Captured(1, Lowered)))
    /\ NumEq(fn_value.chapter_number, NumberOf(Captured(1, Lowered)))

\* the title without the numbering token of pattern p and the separator
\* after it, when the token stands at the start of the title
WithoutToken(p, title) == SubSeq(title, CleanEnd(p, title), Len(title))

\* C17: the cleaned title is the title without the numbering token that
\* parse_number matched, when that token stands at its start, and the
\* title itself otherwise; what follows the token is kept as it is (the
\* label 'Chapter <n>' stands in when nothing follows).
C17_OnlyMatchedTokenRemoved ==
    fn = "title" =>
        LET matching == {p \in 1..NumPatterns : Matches(p, Lowered)}
            rest ==
                IF matching = {} THEN Strip(fn_arg)
                ELSE Strip(WithoutToken(
                        CHOOSE p \in matching : \A q \in matching : p <= q,
                        fn_arg))
        IN  IF rest # <<>> THEN fn_value.title = rest
            ELSE fn_value.title =
                    <<"C", "h", "a", "p", "t", "e", "r", " ">> \o NumStr(fn_value.chapter_number)

(***************************************************************************)
(* The metadata of one page: _extract_novel_info and the defaults of       *)
(* scrape_novel_by_url applied to a parsed page, over pages that differ in *)
(* their status text, their author links, their genre links and in which   *)
(* of the elements they have at all.                                       *)
(***************************************************************************)
MaxWords == 3
MaxLinks == 2

StatusWords ==
    {<<"7", " ", "C", "h", "a", "p", "t", "e", "r", "s", " ">>, <<"2", " ", "v", "o", "l", "u", "m", "e">>, <<"1", "2">>, <<"c", "h", "a", "p", "t", "e", "r">>, <<" ">>,
     <<"(", "C", "o", "m", "p", "l", "e", "t", "e", "d", ")">>, <<"O", "N", "G", "O", "I", "N", "G">>, <<"H", "i", "a", "t", "u", "s", " ">>, <<"d", "r", "o", "p", "p", "e", "d">>,
     <<"I", "n", "c", "o", "m", "p", "l", "e", "t", "e">>}

\* the texts of div#editstatus: every run of at most MaxWords pieces, the
\* empty text of an empty div among them
StatusTexts ==
    {Concat(pieces) :
        pieces \in UNION {[1..n -> StatusWords] : n \in 0..MaxWords}}

StatusPages == {[NoElements EXCEPT !.status = Some(text)] : text \in StatusTexts}

\* the stripped texts of the author links, '' for a link without text
AuthorNames == {"", "Maruyama", "Fuse"}

AuthorPages ==
    {[NoElements EXCEPT !.authors = Some(links)] :
        links \in UNION {[1..n -> AuthorNames] : n \in 0..MaxLinks}}

\* the .string of the genre links: None for a link with an image inside
GenreStrings == {<<>>, Some("Action"), Some("Drama "), Some(" ")}

GenrePages ==
    {[NoElements EXCEPT !.genres = Some(links)] :
        links \in UNION {[1..n -> GenreStrings] : n \in 0..MaxLinks}}

\* every element of the page there or not
ElementPages ==
    {[title |-> title, authors |-> authors, description |-> description,
      genres |-> genres, rating |-> rating, status |-> status,
      translated |-> translated, imgs |-> imgs,
      table |-> <<>>, nav |-> <<>>] :
        title \in {<<>>, Some("Overlord")},
        authors \in {<<>>, Some(<<"Maruyama">>)},
        description \in {<<>>, Some(<<"A tomb.", "", "A guild.">>)},
        genres \in {<<>>, Some(<<Some("Action")>>)},
        rating \in {<<>>, Some("(4.5 / 5.0)")},
        status \in {<<>>, Some(<<"7", " ", "C", "h", "a", "p", "t", "e", "r", "s", " ", "(", "C", "o", "m", "p", "l", "e", "t", "e", "d", ")">>)},
        translated \in {<<>>, Some([link |-> Some("Yes"), text |-> "Yes"])},
        imgs \in {<<>>, <<<<"/", "i", "m", "g", "/", "l", "o", "g", "o", ".", "p", "n", "g">>, <<"/", "/", "c", "d", "n", ".", "n", "o", "v", "e", "l", "u", "p", "d", "a", "t", "e", "s", ".", "c", "o", "m", "/", "i", "m", "a", "g", "e", "s", "/", "a", ".", "j", "p", "g">>>>}}

InfoPages == StatusPages \cup AuthorPages \cup GenrePages \cup ElementPages

\* novel_info = self._extract_novel_info(soup), the source_url and the
\* setdefault lines
ExtractInfo(soup, url) ==
    /\ fn = ""
    /\ fn' = "info"
    /\ fn_arg' = [soup |-> soup, novel_url |-> url]
    /\ fn_value' = SetDefaults(SetKey(extract_novel_info(soup),
                                      "source_url", url))
    /\ UNCHANGED <<vars, dbvars, apivars, opvars>>

\* the URL is the absolute one the call made of its argument
NextInfo ==
    \E soup \in InfoPages, url \in {FullUrl(u) : u \in Urls} :
        ExtractInfo(soup, url)

SpecInfo == Init /\ [][NextInfo]_<<vars, dbvars, fnvars, apivars, opvars>>

(***************************************************************************)
(* What the metadata of a page is claimed to be.                           *)
(***************************************************************************)
\* the page the metadata was taken from
Soup == fn_arg.soup

\* the status keywords, first to last
Keywords ==
    <<[words |-> {<<"c", "o", "m", "p", "l", "e", "t", "e">>, <<"c", "o", "m", "p", "l", "e", "t", "e", "d">>}, status |-> "completed"],
      [words |-> {<<"o", "n", "g", "o", "i", "n", "g">>}, status |-> "ongoing"],
      [words |-> {<<"h", "i", "a", "t", "u", "s">>}, status |-> "hiatus"],
      [words |-> {<<"d", "r", "o", "p", "p", "e", "d">>}, status |-> "dropped"]>>

\* the lowered text l has a word of keyword k
Says(l, k) == \E w \in Keywords[k].words : Contains(l, w)

\* C12: the status is the one of the first keyword, in the order completed,
\* ongoing, hiatus, dropped, that the status text has in any letter case,
\* and unknown when it has none; a chapter or volume count in the text
\* changes nothing of it.
C12_StatusByKeywordPrecedence ==
    (fn = "info" /\ Soup.status # <<>>) =>
        LET l == ToLower(Soup.status[1])
            said == {k \in 1..Len(Keywords) : Says(l, k)}
        IN  /\ said = {} => fn_value["status"] = "unknown"
            /\ \A k \in said :
                  (\A j \in said : k <= j) =>
                      fn_value["status"] = Keywords[k].status

\* a text with a count and with two keywords gave the status of the first
C12_Witness ==
    /\ fn = "info"
    /\ Soup.status # <<>>
    /\ Says(ToLower(Soup.status[1]), 1)
    /\ Says(ToLower(Soup.status[1]), 2)
    /\ fn_value["total_chapters"] > 0
    /\ fn_value["status"] = "completed"

\* C13: a chapter count in the status text decides, whether or not there
\* is a volume count too; a volume count decides when there is no chapter
\* count, and the chapter count is then 0; with neither both counts are 0
\* and the content type is unknown.
C13_ChaptersBeforeVolumes ==
    (fn = "info" /\ Soup.status # <<>>) =>
        LET chapters == CountBefore(Soup.status[1], <<"c", "h", "a", "p", "t", "e", "r">>)
            volumes == CountBefore(Soup.status[1], <<"v", "o", "l", "u", "m", "e">>)
        IN  IF chapters # <<>>
            THEN /\ fn_value["content_type"] = "chapters"
                 /\ fn_value["total_chapters"] = chapters[1]
            ELSE IF volumes # <<>>
            THEN /\ fn_value["content_type"] = "volumes"
                 /\ fn_value["total_volumes"] = volumes[1]
                 /\ fn_value["total_chapters"] = 0
            ELSE /\ fn_value["content_type"] = "unknown"
                 /\ fn_value["total_chapters"] = 0
                 /\ fn_value["total_volumes"] = 0

\* a text with both counts gave the chapter count
C13_Witness ==
    /\ fn = "info"
    /\ Soup.status # <<>>
    /\ CountBefore(Soup.status[1], <<"c", "h", "a", "p", "t", "e", "r">>) # <<>>
    /\ CountBefore(Soup.status[1], <<"v", "o", "l", "u", "m", "e">>) # <<>>
    /\ CountBefore(Soup.status[1], <<"c", "h", "a", "p", "t", "e", "r">>)
         # CountBefore(Soup.status[1], <<"v", "o", "l", "u", "m", "e">>)
    /\ fn_value["content_type"] = "chapters"
    /\ fn_value["total_chapters"] = CountBefore(Soup.status[1], <<"c", "h", "a", "p", "t", "e", "r">>)[1]

\* C14: without a status element, or with one whose text is empty, the
\* counts are 0, content type and status are unknown and raw_status is
\* null.
C14_AbsentOrEmptyStatus ==
    (fn = "info" /\ (Soup.status = <<>> \/ Strip(Soup.status[1]) = <<>>)) =>
        /\ fn_value["total_chapters"] = 0
        /\ fn_value["total_volumes"] = 0
        /\ fn_value["content_type"] = "unknown"
        /\ fn_value["status"] = "unknown"
        /\ fn_value["raw_status"] = <<>>

\* the author links that have a text
Named(links) == SelectSeq(links, LAMBDA name : name # "")

\* C18 as written: the author is the texts of all the author links joined
\* by ' & ', and 'Unknown Author' without a link or without the container.
C18_AuthorIsAllLinksJoined ==
    fn = "info" =>
        fn_value["author"] =
            IF Soup.authors = <<>> \/ Soup.authors[1] = <<>>
            THEN "Unknown Author"
            ELSE Join(" & ", Soup.authors[1])

\* C18: the author is the texts of the author links that have a text, in
\* document order, joined by ' & ': the text itself for one such link, and
\* 'Unknown Author' when no link has a text or there is no container.
C18_AuthorIsNamedLinksJoined ==
    fn = "info" =>
        LET names == IF Soup.authors = <<>> THEN <<>>
                     ELSE Named(Soup.authors[1])
        IN  /\ names = <<>> => fn_value["author"] = "Unknown Author"
            /\ Len(names) = 1 => fn_value["author"] = names[1]
            /\ Len(names) = 2 =>
                  fn_value["author"] = names[1] \o " & " \o names[2]
            /\ fn_value["author"] =
                  IF names = <<>> THEN "Unknown Author"
                  ELSE Join(" & ", names)

\* two links with different texts were joined in their order
C18_Witness ==
    /\ fn = "info"
    /\ Soup.authors # <<>>
    /\ Len(Soup.authors[1]) = 2
    /\ Named(Soup.authors[1]) = Soup.authors[1]
    /\ Soup.authors[1][1] # Soup.authors[1][2]
    /\ fn_value["author"] = Soup.authors[1][1] \o " & " \o Soup.authors[1][2]

\* C19: the genres hold no empty text and no text twice.
C19_GenresNotEmptyNotTwice ==
    (fn = "info" /\ Soup.genres # <<>>) =>
        LET genres == fn_value["genres"]
        IN  /\ \A i \in 1..Len(genres) : genres[i] # ""
            /\ \A i, j \in 1..Len(genres) : i # j => genres[i] # genres[j]

\* C20: the record has every field, and a field whose element the page
\* lacks has its default: 'Unknown Title', 'Unknown Author', no genres,
\* status and content type unknown, both counts 0, raw_status and
\* cover_url null.
C20_MissingElementsGiveDefaults ==
    fn = "info" =>
        /\ {"title", "author", "description", "genres", "status",
            "total_chapters", "total_volumes", "content_type",
            "raw_status", "cover_url", "source_url"} \subseteq DOMAIN fn_value
        /\ Soup.title = <<>> => fn_value["title"] = "Unknown Title"
        /\ Soup.authors = <<>> => fn_value["author"] = "Unknown Author"
        /\ Soup.genres = <<>> => fn_value["genres"] = <<>>
        /\ Soup.status = <<>> =>
              /\ fn_value["status"] = "unknown"
              /\ fn_value["total_chapters"] = 0
              /\ fn_value["total_volumes"] = 0
              /\ fn_value["content_type"] = "unknown"
              /\ fn_value["raw_status"] = <<>>
        /\ Soup.imgs = <<>> => fn_value["cover_url"] = <<>>
        /\ fn_value =
              SetDefaults(SetKey(extract_novel_info(Soup),
                                 "source_url", fn_arg.novel_url))

\* a page with a title and a status but without genres and images
C20_Witness ==
    /\ fn = "info"
    /\ Soup.title # <<>>
    /\ Soup.status # <<>>
    /\ Soup.genres = <<>>
    /\ Soup.imgs = <<>>
    /\ fn_value["title"] = Soup.title[1]
    /\ fn_value["genres"] = <<>>
    /\ fn_value["cover_url"] = <<>>

(***************************************************************************)
(* What the error of a failed scrape (specification Spec) is claimed to    *)
(* hold.                                                                   *)
(***************************************************************************)
\* C11: the error of a failed scrape has the URL of the scrape and the
\* failure it was raised from as fields of its own.
C11_ErrorCarriesUrlAndCause ==
    error # <<>> =>
        /\ "context" \in DOMAIN error[1]
        /\ "url" \in DOMAIN error[1]
        /\ error[1].url = novel_url

(***************************************************************************)
(* What is claimed of the record a scrape returns (specification Spec).    *)
(***************************************************************************)
\* C30: a returned record with a positive total_chapters has the content
\* type chapters.
C30_PositiveCountMeansChapters ==
    result # <<>> =>
        (result[1]["total_chapters"] > 0 =>
            result[1]["content_type"] = "chapters")

(***************************************************************************)
(* What is claimed of the stored chapters (specification SpecDb).          *)
(***************************************************************************)
\* C27: no two chapter rows of one novel have the same number.
C27_ChapterNumbersUnique ==
    \A a, b \in db_chapters :
        (a.novel_id = b.novel_id /\ NumEq(a.number, b.number)) => a = b

\* C28: after an update that succeeded, the same update run again on the
\* same scraped record adds no chapter and leaves the chapters as they
\* are.
C28_UpdateIdempotent ==
    /\ request # <<>>
    /\ request[1].op = "update"
    /\ response[1].status_code = 200
    =>
    LET again == update_novel_chapters(Db, request[1].novel_id,
                     request[1].url, Returned(request[1].scraped[1]))
    IN  /\ again.raised = <<>>
        /\ again.db.chapters = db_chapters
        /\ again.db.novels = db_novels

\* the first run added chapters, two of them with one number
C28_Witness ==
    /\ request # <<>>
    /\ request[1].op = "update"
    /\ response[1].status_code = 200
    /\ \E a, b \in db_chapters \ db_before.chapters :
          a # b /\ NumEq(a.number, b.number)
    /\ update_novel_chapters(Db, request[1].novel_id, request[1].url,
           Returned(request[1].scraped[1])).db.chapters = db_chapters

(***************************************************************************)
(* _extract_chapters_from_page called on one page, over tables whose rows  *)
(* differ in their cells, their link and its text.                         *)
(***************************************************************************)
\* tr rows of one table, at most
MaxTrs == 3

\* a row of one cell, a link with a title in it
OneCellRow ==
    [cells |-> 1, date |-> "",
     link |-> Some([text |-> <<"E", "p", "i", "l", "o", "g", "u", "e">>, href |-> <<"/", "e">>])]

\* link texts of two characters, blanks around them or not
ShortRow ==
    [cells |-> 2, date |-> "01/03/21",
     link |-> Some([text |-> <<" ", "c", "2", " ">>, href |-> <<"/", "s">>])]

\* a link text of three characters, a date with blanks around it, a third
\* cell
ThreeCellRow ==
    [cells |-> 3, date |-> " 01/04/21 ",
     link |-> Some([text |-> <<"c", "1", "2">>, href |-> <<"h", "t", "t", "p", "s", ":", "/", "/", "t", ".", "e", "x", "a", "m", "p", "l", "e", "/", "c", "1", "2">>])]

TrKinds ==
    {HeaderRow, PrologueRow, HalfRow, NoLinkRow, OneCellRow, ShortRow,
     ThreeCellRow}

TablePages ==
    {NoElements} \cup
    {[NoElements EXCEPT !.table = Some(trs)] :
        trs \in UNION {[1..n -> TrKinds] : n \in 0..MaxTrs}}

\* all_chapters = self._extract_chapters_from_page(soup)
ExtractChapters(soup) ==
    /\ fn = ""
    /\ fn' = "chapters"
    /\ fn_arg' = soup
    /\ fn_value' = extract_chapters_from_page(soup)
    /\ UNCHANGED <<vars, dbvars, apivars, opvars>>

NextRows == \E soup \in TablePages : ExtractChapters(soup)

SpecRows == Init /\ [][NextRows]_<<vars, dbvars, fnvars, apivars, opvars>>

(***************************************************************************)
(* What the chapter extraction is claimed to do.                           *)
(***************************************************************************)
\* the first cell of the row has a link with a text of three characters or
\* more
HasTitledLink(row) ==
    /\ row.cells >= 1
    /\ row.link # <<>>
    /\ Len(Strip(row.link[1].text)) >= 3

\* the rows after the header row that have such a link
TitledRows == SelectSeq(Tail(fn_arg.table[1]), HasTitledLink)

\* C23: the records are one for each row after the header row whose first
\* cell has a link with a text of three characters or more, in the order
\* of the rows; a page without the table gives no record.
C23_OneRecordPerTitledRow ==
    fn = "chapters" =>
        IF fn_arg.table = <<>> \/ fn_arg.table[1] = <<>>
        THEN fn_value = <<>>
        ELSE /\ Len(fn_value) = Len(TitledRows)
             /\ \A i \in 1..Len(fn_value) :
                   /\ fn_value[i].title
                        = clean_chapter_title(Strip(TitledRows[i].link[1].text))
                   /\ NumEq(fn_value[i].chapter_number,
                        parse_chapter_number(Strip(TitledRows[i].link[1].text)))

\* C24: the record of a row with such a link has the row's href as its
\* source_url, and as its release_date the text of the second cell as it
\* stands, or null when the row has one cell only.
C24_DateAndUrlAsInMarkup ==
    (fn = "chapters" /\ fn_arg.table # <<>> /\ fn_arg.table[1] # <<>>) =>
        \A i \in 1..Len(TitledRows) :
            /\ i <= Len(fn_value)
            /\ fn_value[i].source_url = TitledRows[i].link[1].href
            /\ fn_value[i].release_date =
                  IF TitledRows[i].cells >= 2
                  THEN Some(TitledRows[i].date)
                  ELSE <<>>

(***************************************************************************)
(* The novel, chapter and user-preferences endpoints, one request at a     *)
(* time: each action is one request, served to its response.  The          *)
(* created_at and updated_at columns are left out.                         *)
(***************************************************************************)
MaxDays == 2
MaxSessions == 1

\* the four tables a request's session sees
ApiDb == [novels |-> db_novels, chapters |-> db_chapters,
          preferences |-> db_preferences, sessions |-> db_sessions]

\* an exception of app.core.exceptions
ServiceError(type, message) == [type |-> type, msg |-> message]

Raises(db, e) == [db |-> db, value |-> <<>>, raised |-> Some(e)]
Returns(db, v) == [db |-> db, value |-> Some(v), raised |-> <<>>]

\* the bodies of POST /novels the model sends, as LightNovelCreate holds them
NovelsData ==
    {[title |-> "Overlord", author |-> "Maruyama", cover_url |-> <<>>,
      description |-> <<>>, status |-> "ongoing", genres |-> <<"Fantasy">>,
      source_url |-> <<>>, total_chapters |-> <<>>, total_volumes |-> <<>>,
      content_type |-> "unknown", raw_status |-> <<>>]}

\* db.add(LightNovel(**novel_dict)); db.commit()
AddNovel(db, novel_data) ==
    LET db_novel ==
            [id |-> NewId(db.novels),
             title |-> novel_data.title,
             author |-> novel_data.author,
             description |-> novel_data.description,
             status |-> novel_data.status,
             genres |-> json_dumps(novel_data.genres),
             source_url |-> novel_data.source_url,
             cover_url |-> novel_data.cover_url,
             total_chapters |-> novel_data.total_chapters,
             total_volumes |-> novel_data.total_volumes,
             content_type |-> novel_data.content_type,
             raw_status |-> novel_data.raw_status]
    IN  Returns([db EXCEPT !.novels = @ \cup {db_novel}], db_novel.id)

\* raise DuplicateNovelError(novel_data.title, novel_data.author)
DuplicateNovel(db, novel_data) ==
    Raises(db, ServiceError("DuplicateNovelError",
        "Novel '" \o novel_data.title \o "' by " \o novel_data.author
            \o " already exists"))

create_novel(db, novel_data) ==
    IF ExistingNovel(db.novels, novel_data.title, novel_data.author) # {}
    THEN DuplicateNovel(db, novel_data)
    ELSE AddNovel(db, novel_data)

\* the rows of a table that refer to a novel
Of(rows, novel_id) == {r \in rows : r.novel_id = novel_id}

\* the rows a one-to-many relationship without a delete cascade reaches:
\* when their parent is deleted the flush sets their novel_id to NULL
SetNull(rows, novel_id) == Of(rows, novel_id)

\* the rows a relationship with a delete cascade reaches: the flush deletes
\* them with their parent
Cascade(rows, novel_id) == Of(rows, novel_id)

\* db.delete(db_novel); db.commit(): the chapters go with the novel
\* (cascade="all, delete-orphan"); the UPDATE that sets novel_id to NULL in
\* user_preferences and reading_sessions breaks nullable=False when it has a
\* row to change, and the transaction is rolled back
delete_novel(db, novel_id) ==
    IF {n \in db.novels : n.id = novel_id} = {}
    THEN Raises(db, ServiceError("NovelNotFoundError",
             "Novel with ID " \o ToString(novel_id) \o " not found"))
    ELSE IF \/ SetNull(db.preferences, novel_id) # {}
            \/ SetNull(db.sessions, novel_id) # {}
    THEN Raises(db, ServiceError("DatabaseError",
             "Database operation 'delete_novel' failed"))
    ELSE Returns([db EXCEPT
                     !.novels = {n \in @ : n.id # novel_id},
                     !.chapters = @ \ Cascade(@, novel_id)],
                 novel_id)

\* the bodies of POST /novels/{novel_id}/chapters the model sends
ChaptersData ==
    {[number |-> IntNum(1), title |-> "Prologue", source_url |-> <<>>],
     [number |-> [n |-> 3, d |-> 2, isfloat |-> TRUE], title |-> "Side story",
      source_url |-> <<>>]}

\* the number check left out
NoExistingChapter(rows, novel_id, num) == {}

\* db.query(Chapter).filter(novel_id == novel_id, number == number)
ExistingChapter(rows, novel_id, num) ==
    {c \in rows : c.novel_id = novel_id /\ NumEq(c.number, num)}

create_chapter(db, novel_id, chapter_data) ==
    IF {n \in db.novels : n.id = novel_id} = {}
    THEN Raises(db, ServiceError("NovelNotFoundError",
             "Novel with ID " \o ToString(novel_id) \o " not found"))
    ELSE IF ExistingChapter(db.chapters, novel_id, chapter_data.number) # {}
    THEN Raises(db, ServiceError("DuplicateChapterError",
             "Chapter already exists for novel " \o ToString(novel_id)))
    ELSE LET db_chapter ==
                 [id |-> NewId(db.chapters),
                  novel_id |-> novel_id,
                  number |-> Float(chapter_data.number),
                  title |-> chapter_data.title,
                  source_url |-> chapter_data.source_url]
         IN  Returns([db EXCEPT !.chapters = @ \cup {db_chapter}],
                     db_chapter.id)

\* the bodies of PATCH /novels/{novel_id}/chapters/{chapter_id} the model
\* sends, as model_dump(exclude_unset=True) gives them
ChapterUpdates ==
    {[title |-> "Renamed"],
     [number |-> IntNum(1)],
     [number |-> [n |-> 3, d |-> 2, isfloat |-> TRUE]]}

\* for field, value in update_data.items(): setattr(db_chapter, field, value)
SetChapter(db_chapter, update_data) ==
    [id |-> db_chapter.id,
     novel_id |-> db_chapter.novel_id,
     number |-> IF "number" \in DOMAIN update_data
                THEN Float(update_data.number) ELSE db_chapter.number,
     title |-> IF "title" \in DOMAIN update_data
               THEN update_data.title ELSE db_chapter.title,
     source_url |-> IF "source_url" \in DOMAIN update_data
                    THEN update_data.source_url ELSE db_chapter.source_url]

\* the check of the new number left out
NoOtherWithNumber(rows, novel_id, chapter_id, num) == {}

\* the other chapters of the novel that hold the number asked for
OtherWithNumber(rows, novel_id, chapter_id, num) ==
    {c \in ExistingChapter(rows, novel_id, num) : c.id # chapter_id}

ChapterNotFound(db, chapter_id, novel_id) ==
    Raises(db, ServiceError("ChapterNotFoundError",
        "Chapter with ID " \o ToString(chapter_id) \o " not found for novel "
            \o ToString(novel_id)))

update_chapter(db, novel_id, chapter_id, update_data) ==
    LET found == {c \in db.chapters :
                     c.id = chapter_id /\ c.novel_id = novel_id}
    IN  IF found = {} THEN ChapterNotFound(db, chapter_id, novel_id)
        ELSE LET db_chapter == CHOOSE c \in found : TRUE
             IN  IF /\ "number" \in DOMAIN update_data
                    /\ OtherWithNumber(db.chapters, novel_id, chapter_id,
                                       update_data.number) # {}
                 THEN Raises(db, ServiceError("DuplicateChapterError",
                          "Chapter already exists for novel "
                              \o ToString(novel_id)))
                 ELSE Returns(
                          [db EXCEPT !.chapters = (@ \ {db_chapter})
                              \cup {SetChapter(db_chapter, update_data)}],
                          chapter_id)

delete_chapter(db, novel_id, chapter_id) ==
    LET found == {c \in db.chapters :
                     c.id = chapter_id /\ c.novel_id = novel_id}
    IN  IF found = {} THEN ChapterNotFound(db, chapter_id, novel_id)
        ELSE Returns([db EXCEPT !.chapters = @ \ found], chapter_id)

\* the values of UserStatus the model sends
Statuses == {"reading", "completed", "on_hold"}

\* the bodies of POST /user-preferences/{novel_id} the model sends, as
\* model_dump(exclude_unset=True) gives them
PreferencesData == {[is_favorite |-> TRUE]}

\* setattr of every field that was sent
SetPreferences(row, data) ==
    [id |-> row.id,
     novel_id |-> row.novel_id,
     user_status |-> IF "user_status" \in DOMAIN data
                     THEN data.user_status ELSE row.user_status,
     is_favorite |-> IF "is_favorite" \in DOMAIN data
                     THEN data.is_favorite ELSE row.is_favorite,
     date_started |-> IF "date_started" \in DOMAIN data
                      THEN data.date_started ELSE row.date_started,
     date_completed |-> IF "date_completed" \in DOMAIN data
                        THEN data.date_completed ELSE row.date_completed]

\* UserPreferences(novel_id=novel_id, **data) with the columns' defaults
NewPreferences(rows, novel_id, data) ==
    SetPreferences([id |-> NewId(rows), novel_id |-> novel_id,
                    user_status |-> <<>>, is_favorite |-> FALSE,
                    date_started |-> <<>>, date_completed |-> <<>>], data)

create_or_update_user_preferences(db, novel_id, preferences_data) ==
    IF {n \in db.novels : n.id = novel_id} = {}
    THEN Raises(db, ServiceError("NovelNotFoundError",
             "Novel with ID " \o ToString(novel_id) \o " not found"))
    ELSE LET existing_preferences == Of(db.preferences, novel_id)
         IN  IF existing_preferences # {}
             THEN LET row == CHOOSE p \in existing_preferences : TRUE
                  IN  Returns([db EXCEPT !.preferences = (@ \ {row})
                                  \cup {SetPreferences(row, preferences_data)}],
                              row.id)
             ELSE LET db_preferences_row ==
                          NewPreferences(db.preferences, novel_id,
                                         preferences_data)
                  IN  Returns([db EXCEPT !.preferences =
                                  @ \cup {db_preferences_row}],
                              db_preferences_row.id)

\* the dates the status sets on preferences that exist: date_started for
\* 'reading', else date_completed for 'completed', each only when not set
AutoSetDates(preferences, user_status, day) ==
    IF user_status = "reading" /\ preferences.date_started = <<>>
    THEN [preferences EXCEPT !.date_started = Some(day)]
    ELSE IF user_status = "completed" /\ preferences.date_completed = <<>>
    THEN [preferences EXCEPT !.date_completed = Some(day)]
    ELSE preferences


update_reading_status(db, novel_id, user_status, day) ==
    IF {n \in db.novels : n.id = novel_id} = {}
    THEN Raises(db, ServiceError("NovelNotFoundError",
             "Novel with ID " \o ToString(novel_id) \o " not found"))
    ELSE LET preferences == Of(db.preferences, novel_id)
         IN  IF preferences = {}
             THEN create_or_update_user_preferences(db, novel_id,
                      [user_status |-> Some(user_status)])
             ELSE LET row == CHOOSE p \in preferences : TRUE
                      updated ==
                          AutoSetDates([row EXCEPT !.user_status =
                                           Some(user_status)],
                                       user_status, day)
                  IN  Returns([db EXCEPT !.preferences = (@ \ {row})
                                  \cup {updated}], row.id)

delete_user_preferences(db, novel_id) ==
    LET preferences == Of(db.preferences, novel_id)
    IN  Returns([db EXCEPT !.preferences = @ \ preferences],
                preferences # {})

\* the bodies of POST /reading-sessions/{novel_id}/start the model sends
SessionsData ==
    {[chapter_number |-> IntNum(1), duration_minutes |-> <<>>,
      device_type |-> Some("web")]}

start_reading_session(db, novel_id, session_data) ==
    IF {n \in db.novels : n.id = novel_id} = {}
    THEN Raises(db, ServiceError("NovelNotFoundError",
             "Novel with ID " \o ToString(novel_id) \o " not found"))
    ELSE LET db_session ==
                 [id |-> NewId(db.sessions),
                  novel_id |-> novel_id,
                  chapter_number |-> Float(session_data.chapter_number),
                  duration_minutes |-> session_data.duration_minutes,
                  device_type |-> session_data.device_type]
         IN  Returns([db EXCEPT !.sessions = @ \cup {db_session}],
                     db_session.id)

\* _handle_service_exception of app.api.novels and app.api.user_preferences
handle_service_exception(e) ==
    IF e.type \in {"NovelNotFoundError", "ChapterNotFoundError"}
    THEN HTTPException(404, e.msg, <<>>)
    ELSE IF e.type \in {"DuplicateNovelError", "DuplicateChapterError"}
    THEN HTTPException(409, e.msg, <<>>)
    ELSE HTTPException(500, "Internal server error", <<>>)

\* one request served: the tables as the service left them, and the response
Serve(req, r, status_code) ==
    /\ db_before' = ApiDb
    /\ request' = Some(req)
    /\ db_novels' = r.db.novels
    /\ db_chapters' = r.db.chapters
    /\ db_preferences' = r.db.preferences
    /\ db_sessions' = r.db.sessions
    /\ response' = IF r.raised # <<>>
                   THEN Some(handle_service_exception(r.raised[1]))
                   ELSE Some(Success(status_code, r.value[1]))
    /\ UNCHANGED <<today, vars, fnvars, opvars>>

\* POST /novels
CreateNovel(novel_data) ==
    Serve([op |-> "create_novel", novel_id |-> 0, chapter_id |-> 0,
           data |-> novel_data],
          create_novel(ApiDb, novel_data), 201)

\* DELETE /novels/{novel_id}
DeleteNovel(novel_id) ==
    Serve([op |-> "delete_novel", novel_id |-> novel_id, chapter_id |-> 0,
           data |-> <<>>],
          delete_novel(ApiDb, novel_id), 204)

\* POST /novels/{novel_id}/chapters
CreateChapter(novel_id, chapter_data) ==
    Serve([op |-> "create_chapter", novel_id |-> novel_id, chapter_id |-> 0,
           data |-> chapter_data],
          create_chapter(ApiDb, novel_id, chapter_data), 201)

\* PATCH /novels/{novel_id}/chapters/{chapter_id}
UpdateChapter(novel_id, chapter_id, update_data) ==
    Serve([op |-> "update_chapter", novel_id |-> novel_id,
           chapter_id |-> chapter_id, data |-> update_data],
          update_chapter(ApiDb, novel_id, chapter_id, update_data), 200)

\* DELETE /novels/{novel_id}/chapters/{chapter_id}
DeleteChapter(novel_id, chapter_id) ==
    Serve([op |-> "delete_chapter", novel_id |-> novel_id,
           chapter_id |-> chapter_id, data |-> <<>>],
          delete_chapter(ApiDb, novel_id, chapter_id), 204)

\* POST /user-preferences/{novel_id}
CreateOrUpdateUserPreferences(novel_id, preferences_data) ==
    Serve([op |-> "create_or_update_user_preferences", novel_id |-> novel_id,
           chapter_id |-> 0, data |-> preferences_data],
          create_or_update_user_preferences(ApiDb, novel_id,
                                            preferences_data), 201)

\* PATCH /user-preferences/{novel_id}/status
UpdateReadingStatus(novel_id, user_status) ==
    Serve([op |-> "update_reading_status", novel_id |-> novel_id,
           chapter_id |-> 0, data |-> user_status],
          update_reading_status(ApiDb, novel_id, user_status, today), 200)

\* DELETE /user-preferences/{novel_id}
DeleteUserPreferences(novel_id) ==
    Serve([op |-> "delete_user_preferences", novel_id |-> novel_id,
           chapter_id |-> 0, data |-> <<>>],
          delete_user_preferences(ApiDb, novel_id), 204)

\* POST /reading-sessions/{novel_id}/start
StartReadingSession(novel_id, session_data) ==
    /\ Cardinality(db_sessions) < MaxSessions
    /\ Serve([op |-> "start_reading_session", novel_id |-> novel_id,
              chapter_id |-> 0, data |-> session_data],
             start_reading_session(ApiDb, novel_id, session_data), 201)

\* midnight passes
NextDay ==
    /\ today < MaxDays
    /\ today' = today + 1
    /\ UNCHANGED <<vars, dbvars, fnvars, db_preferences, db_sessions, opvars>>

\* the chapter ids a request may name: the stored ones and one that is not
ChapterIds == 1..(Cardinality(db_chapters) + 1)

NextApi ==
    \/ \E novel_data \in NovelsData : CreateNovel(novel_data)
    \/ \E novel_id \in NovelIds : DeleteNovel(novel_id)
    \/ \E novel_id \in NovelIds, chapter_data \in ChaptersData :
          CreateChapter(novel_id, chapter_data)
    \/ \E novel_id \in NovelIds, chapter_id \in ChapterIds,
          update_data \in ChapterUpdates :
          UpdateChapter(novel_id, chapter_id, update_data)
    \/ \E novel_id \in NovelIds, chapter_id \in ChapterIds :
          DeleteChapter(novel_id, chapter_id)
    \/ \E novel_id \in NovelIds, preferences_data \in PreferencesData :
          CreateOrUpdateUserPreferences(novel_id, preferences_data)
    \/ \E novel_id \in NovelIds : DeleteUserPreferences(novel_id)
    \/ \E novel_id \in NovelIds, session_data \in SessionsData :
          StartReadingSession(novel_id, session_data)

SpecApi == Init /\ [][NextApi]_<<vars, dbvars, fnvars, apivars, opvars>>

\* the requests that reach the preferences of a novel, day after day
NextStatus ==
    \/ \E novel_data \in NovelsData : CreateNovel(novel_data)
    \/ \E novel_id \in NovelIds : DeleteNovel(novel_id)
    \/ \E novel_id \in NovelIds, preferences_data \in PreferencesData :
          CreateOrUpdateUserPreferences(novel_id, preferences_data)
    \/ \E novel_id \in NovelIds, user_status \in Statuses :
          UpdateReadingStatus(novel_id, user_status)
    \/ \E novel_id \in NovelIds : DeleteUserPreferences(novel_id)
    \/ NextDay

SpecStatus == Init /\ [][NextStatus]_<<vars, dbvars, fnvars, apivars, opvars>>

\* the last request, and the novel and chapters it found
Req == request[1]
FoundNovel == {n \in db_before.novels : n.id = Req.novel_id} # {}
FoundChapter ==
    {c \in db_before.chapters :
        c.id = Req.chapter_id /\ c.novel_id = Req.novel_id} # {}

\* a chapter of the request's novel, other than the one it names, held the
\* number when the request came
NumberInUse(num) ==
    \E c \in db_before.chapters :
        /\ c.novel_id = Req.novel_id
        /\ c.id # Req.chapter_id
        /\ NumEq(c.number, num)

\* C22: create_chapter with a number a chapter of the same novel already
\* has, and update_chapter that changes the number to one another chapter
\* of the same novel has, are answered with 409 for DuplicateChapterError,
\* and the stored chapters are as they were.
C22_DuplicateNumberRejected ==
    request # <<>> =>
        /\ (/\ Req.op = "create_chapter"
            /\ FoundNovel
            /\ NumberInUse(Req.data.number))
           => /\ response[1].status_code = 409
              /\ db_chapters = db_before.chapters
        /\ (/\ Req.op = "update_chapter"
            /\ FoundChapter
            /\ "number" \in DOMAIN Req.data
            /\ NumberInUse(Req.data.number))
           => /\ response[1].status_code = 409
              /\ db_chapters = db_before.chapters

\* an update_chapter asked to move a chapter onto the number of the other
\* chapter of its novel, refused
C22_Witness ==
    /\ request # <<>>
    /\ Req.op = "update_chapter"
    /\ FoundChapter
    /\ "number" \in DOMAIN Req.data
    /\ NumberInUse(Req.data.number)
    /\ \E c \in db_before.chapters :
          c.id = Req.chapter_id /\ ~NumEq(c.number, Req.data.number)
    /\ response[1].status_code = 409
    /\ Cardinality(db_chapters) = 2

\* C21: after update_reading_status on a novel that exists, its preferences
\* hold the new status, date_started is set whenever the status is
\* 'reading' and date_completed whenever it is 'completed', whether the
\* preferences existed before or not, and a date that was set is kept.
C21_StatusSetsItsDate ==
    (request # <<>> /\ Req.op = "update_reading_status" /\ FoundNovel) =>
        /\ response[1].status_code = 200
        /\ Cardinality(Of(db_preferences, Req.novel_id)) = 1
        /\ \A p \in Of(db_preferences, Req.novel_id) :
              /\ p.user_status = Some(Req.data)
              /\ Req.data = "reading" => p.date_started # <<>>
              /\ Req.data = "completed" => p.date_completed # <<>>
              /\ \A q \in Of(db_before.preferences, Req.novel_id) :
                    /\ q.date_started # <<>>
                          => p.date_started = q.date_started
                    /\ q.date_completed # <<>>
                          => p.date_completed = q.date_completed

\* C29: every stored chapter, preferences row and reading session refers to
\* a novel that exists, and delete_novel of a novel that exists succeeds and
\* leaves none of its chapters, preferences or sessions.
C29_DeleteLeavesNothingBehind ==
    /\ \A r \in db_chapters \cup db_preferences \cup db_sessions :
          \E n \in db_novels : n.id = r.novel_id
    /\ (request # <<>> /\ Req.op = "delete_novel" /\ FoundNovel) =>
          /\ response[1].status_code = 204
          /\ \A n \in db_novels : n.id # Req.novel_id
          /\ Of(db_chapters, Req.novel_id) = {}
          /\ Of(db_preferences, Req.novel_id) = {}
          /\ Of(db_sessions, Req.novel_id) = {}

(***************************************************************************)
(* The operations of the integration layer and create_novel, step by step, *)
(* on threads that run at the same time, each with its own session: the    *)
(* endpoints are plain functions, which the server runs on a thread pool,  *)
(* and a background import runs scrape_and_create_novel on a session of    *)
(* its own.  A write, from flush to commit, is one step.                   *)
(***************************************************************************)
MaxOps == 3

\* the site answers with Overlord on one page, or fails
OpSites ==
    {site \in Sites :
        /\ site.later[1].soup = <<>>
        /\ \/ site.main.soup = <<>>
           \/ /\ site.main.soup[1].title = Some("Overlord")
              /\ site.main.soup[1].nav = <<>>}

\* what scraper.scrape_novel_by_url(url) can give an import or an update
FullScrapes ==
    {[url |-> url, scraped |-> scrape_novel_by_url(site, url, TRUE)] :
        site \in OpSites, url \in DbUrls}

\* what scraper.scrape_novel_by_url(url, scrape_chapters=False) can give
PreviewScrapes ==
    {[url |-> url, scraped |-> scrape_novel_by_url(site, url, FALSE)] :
        site \in OpSites, url \in DbUrls}

\* one instance kept for every operation
SharedScraper(made) == 1

\* scraper = NovelUpdatesCloudScraper(delay=6): an instance of its own
OwnScraper(made) == Len(made) + 1

\* an instance as it is made: who made it, who called it, how often it was
\* closed, and whether it was called after it was closed
Fresh(owner) ==
    [owner |-> owner, users |-> {}, closes |-> 0, late |-> FALSE]

\* an operation on its thread
Op(pc_, kind, id, url, novel_id, data) ==
    [pc |-> pc_, kind |-> kind, id |-> id, url |-> url,
     novel_id |-> novel_id, data |-> data, scraper |-> 0,
     scraped |-> <<>>, raised |-> <<>>]

Kinds == {"import", "update", "preview"}

\* the urls validate_url lets through
ValidUrls == {url \in DbUrls : validate_url(url)}

\* the endpoint takes the request: validate_url, then the service
Begin(t, kind, url, novel_id) ==
    /\ ops[t].pc = "idle"
    /\ started < MaxOps
    /\ started' = started + 1
    /\ ops' = [ops EXCEPT ![t] =
          IF url \notin ValidUrls
          THEN [Op("return", kind, started', url, novel_id, <<>>)
                   EXCEPT !.raised = Some(ValueError("Invalid URL"))]
          ELSE Op(IF kind = "update" THEN "find" ELSE "new",
                  kind, started', url, novel_id, <<>>)]
    /\ UNCHANGED <<scrapers, vars, dbvars, fnvars, apivars>>

\* POST /novels is taken
BeginCreate(t, novel_data) ==
    /\ ops[t].pc = "idle"
    /\ started < MaxOps
    /\ started' = started + 1
    /\ ops' = [ops EXCEPT ![t] =
                  Op("check", "create", started', <<>>, 0, novel_data)]
    /\ UNCHANGED <<scrapers, vars, dbvars, fnvars, apivars>>

\* update_novel_chapters looks the novel up before it makes a scraper
FindNovel(t) ==
    /\ ops[t].pc = "find"
    /\ ops' = [ops EXCEPT ![t] =
          IF {n \in db_novels : n.id = ops[t].novel_id} = {}
          THEN [@ EXCEPT !.pc = "return",
                         !.raised = Some(ValueError("Novel with ID "
                             \o ToString(ops[t].novel_id) \o " not found"))]
          ELSE [@ EXCEPT !.pc = "new"]]
    /\ UNCHANGED <<scrapers, started, vars, dbvars, fnvars, apivars>>

\* scraper = NovelUpdatesCloudScraper(delay=6)
NewScraper(t) ==
    /\ ops[t].pc = "new"
    /\ LET s == OwnScraper(scrapers)
       IN  /\ scrapers' = IF s > Len(scrapers)
                          THEN Append(scrapers, Fresh(ops[t].id))
                          ELSE scrapers
           /\ ops' = [ops EXCEPT
                 ![t].pc = IF ops[t].kind = "preview" THEN "preview"
                           ELSE "scrape",
                 ![t].scraper = s]
    /\ UNCHANGED <<started, vars, dbvars, fnvars, apivars>>

\* scraper.scrape_novel_by_url(...), with every fetch it makes; the import
\* first refuses a url that does not start with http
Scrape(t, call) ==
    /\ ops[t].pc = "scrape"
    /\ call.url = ops[t].url
    /\ IF ops[t].kind = "import"
          /\ ~StartsWith(ops[t].url, <<"h", "t", "t", "p">>)
       THEN /\ ops' = [ops EXCEPT ![t].pc = "close",
                  ![t].raised = Some(ValueError("Only NovelUpdates URLs are supported. Search functionality has been removed."))]
            /\ UNCHANGED scrapers
       ELSE /\ scrapers' = [scrapers EXCEPT
                  ![ops[t].scraper].users = @ \cup {ops[t].id},
                  ![ops[t].scraper].late =
                      @ \/ scrapers[ops[t].scraper].closes > 0]
            /\ ops' = [ops EXCEPT
                  ![t].pc = IF call.scraped.raised # <<>> THEN "close"
                            ELSE IF ops[t].kind = "import" THEN "check"
                            ELSE "write",
                  ![t].raised = call.scraped.raised,
                  ![t].scraped = call.scraped.value]
    /\ UNCHANGED <<started, vars, dbvars, fnvars, apivars>>

\* scraper.scrape_novel_by_url(novelupdates_url, scrape_chapters=False)
Preview(t, call) ==
    /\ ops[t].pc = "preview"
    /\ call.url = ops[t].url
    /\ scrapers' = [scrapers EXCEPT
          ![ops[t].scraper].users = @ \cup {ops[t].id},
          ![ops[t].scraper].late = @ \/ scrapers[ops[t].scraper].closes > 0]
    /\ ops' = [ops EXCEPT ![t].pc = "close",
                          ![t].raised = call.scraped.raised,
                          ![t].scraped = call.scraped.value]
    /\ UNCHANGED <<started, vars, dbvars, fnvars, apivars>>

\* the query for a novel with the title and the author
Check(t) ==
    /\ ops[t].pc = "check"
    /\ LET found ==
               IF ops[t].kind = "create"
               THEN ExistingNovel(db_novels, ops[t].data.title,
                                  ops[t].data.author)
               ELSE ExistingNovel(db_novels,
                        Get(ops[t].scraped[1], "title", "Unknown Title"),
                        Get(ops[t].scraped[1], "author", "Unknown Author"))
       IN  ops' = [ops EXCEPT ![t] =
              IF found = {} THEN [@ EXCEPT !.pc = "write"]
              ELSE IF ops[t].kind = "create"
              THEN [@ EXCEPT !.pc = "return",
                       !.raised = DuplicateNovel(ApiDb, ops[t].data).raised]
              ELSE [@ EXCEPT !.pc = "close",
                       !.raised = AlreadyExists(Db, ops[t].scraped[1]).raised]]
    /\ UNCHANGED <<scrapers, started, vars, dbvars, fnvars, apivars>>

\* the rows are added and committed
Write(t) ==
    /\ ops[t].pc = "write"
    /\ LET r == IF ops[t].kind = "create"
                THEN AddNovel(ApiDb, ops[t].data)
                ELSE IF ops[t].kind = "import"
                THEN CreateScraped(Db, ops[t].url, ops[t].scraped[1])
                ELSE update_novel_chapters(Db, ops[t].novel_id, ops[t].url,
                                           Returned(ops[t].scraped[1]))
       IN  /\ db_novels' = r.db.novels
           /\ db_chapters' = r.db.chapters
           /\ ops' = [ops EXCEPT
                 ![t].pc = IF ops[t].kind = "create" THEN "return"
                           ELSE "close",
                 ![t].raised = r.raised]
    /\ UNCHANGED <<db_before, request, response>>
    /\ UNCHANGED <<scrapers, started, vars, fnvars, apivars>>

\* finally: scraper.close()
Close(t) ==
    /\ ops[t].pc = "close"
    /\ scrapers' = [scrapers EXCEPT ![ops[t].scraper].closes = @ + 1]
    /\ ops' = [ops EXCEPT ![t].pc = "return"]
    /\ UNCHANGED <<started, vars, dbvars, fnvars, apivars>>

\* the operation returns or raises, and the thread is free again
EndOp(t) ==
    /\ ops[t].pc = "return"
    /\ ops' = [ops EXCEPT ![t] = Idle]
    /\ UNCHANGED <<scrapers, started, vars, dbvars, fnvars, apivars>>

NextOps ==
    \E t \in Threads :
        \/ \E kind \in Kinds, url \in DbUrls, novel_id \in NovelIds :
              Begin(t, kind, url, novel_id)
        \/ \E novel_data \in NovelsData : BeginCreate(t, novel_data)
        \/ FindNovel(t)
        \/ NewScraper(t)
        \/ \E call \in FullScrapes : Scrape(t, call)
        \/ \E call \in PreviewScrapes : Preview(t, call)
        \/ Check(t)
        \/ Write(t)
        \/ Close(t)
        \/ EndOp(t)

SpecOps == Init /\ [][NextOps]_<<vars, dbvars, fnvars, apivars, opvars>>

\* the operations under way
Running == {t \in Threads : ops[t].pc # "idle"}

\* the threads whose operation holds a scraper
Holding == {t \in Running : ops[t].scraper # 0}

\* C25: every import, update-from-source and preview makes a scraper of its
\* own and closes it once on every way out, after its last fetch; no
\* scraper is called by two operations.
C25_OwnScraperClosedOnce ==
    /\ \A t \in Running :
          (ops[t].kind # "create"
              /\ ops[t].pc \in {"scrape", "preview", "check", "write",
                               "close"})
          => /\ ops[t].scraper # 0
             /\ scrapers[ops[t].scraper].owner = ops[t].id
             /\ scrapers[ops[t].scraper].closes = 0
    /\ \A t, u \in Holding : ops[t].scraper = ops[u].scraper => t = u
    /\ \A t \in Holding :
          ops[t].pc = "return" => scrapers[ops[t].scraper].closes = 1
    /\ \A i \in 1..Len(scrapers) :
          /\ scrapers[i].users \subseteq {scrapers[i].owner}
          /\ scrapers[i].closes <= 1
          /\ ~scrapers[i].late
          /\ (\A t \in Holding : ops[t].scraper # i)
                => scrapers[i].closes = 1

\* one operation leaves with an error and its scraper closed while another
\* is scraping with a scraper of its own
C25_Witness ==
    \E t, u \in Holding :
        /\ ops[t].pc = "return"
        /\ ops[t].raised # <<>>
        /\ scrapers[ops[t].scraper].closes = 1
        /\ ops[u].pc = "check"
        /\ scrapers[ops[u].scraper].users = {ops[u].id}
        /\ \E i \in 1..Len(scrapers) :
              /\ i \notin {ops[t].scraper, ops[u].scraper}
              /\ scrapers[i].closes = 1

\* C26: whatever the interleaving of imports and create_novel calls, no two
\* stored novels have the same title and author.
C26_OneNovelPerTitleAndAuthor ==
    \A a, b \in db_novels :
        (a.title = b.title /\ a.author = b.author) => a = b

============================================================================
